---- MODULE Spec2Model ----
(***************************************************************************)
(* Model of the in-process event bus of docs/EVENT_BUS_MESSAGE_PASSING.md  *)
(* (class EventBus, /src/system/EventBus.js).                              *)
(*                                                                         *)
(* An event name or pattern "a.b.c" is kept in the form split('.') gives   *)
(* it, the sequence of its segments <<"a","b","c">>; two names are equal   *)
(* as strings exactly when their segment sequences are equal.              *)
(* Subscription ids sub_N and event ids evt_N are kept as the number N of  *)
(* the shared idCounter.  A callback is identified with the id of its      *)
(* subscription; what a callback does while it runs (calls back into the   *)
(* bus, returns, throws an Error) is chosen by the environment.            *)
(***************************************************************************)
EXTENDS Integers, Sequences, FiniteSets, TLC

VARIABLES
  events,          \* this.events: Map pattern -> Map subId -> subscription, in insertion order
  middleware,      \* this.middleware
  eventHistory,    \* this.eventHistory
  maxHistorySize,  \* this.maxHistorySize
  idCounter,       \* this.idCounter
  stack,           \* the publish calls in progress (the JS call stack), outermost first
  last,            \* observation: the operation that just ran and what it returned
  attempts,        \* observation: per id drawn, how often the callback of that subscription
                   \* was invoked (2 = twice or more; 0 for an event id)
  threw,           \* observation: the subIds whose callback has thrown
  matchCall,       \* a direct call _matchWildcard(event, pattern): its arguments, then its result
  undoStack,       \* HistoryManager: this.undoStack, oldest first
  redoStack,       \* HistoryManager: this.redoStack
  hmMaxHistorySize,  \* HistoryManager: this.maxHistorySize
  selectedNodes,   \* SelectionManager: this.selectedNodes, a Set in insertion order
  selectedEdges,   \* SelectionManager: this.selectedEdges
  selectionHistory,  \* SelectionManager: this.selectionHistory
  smMaxHistorySize,  \* SelectionManager: this.maxHistorySize
  calls,           \* the HistoryManager / SelectionManager calls in progress, outermost first
  trace,           \* observation: the manager calls made so far, what each called,
                   \* published and returned, and the state before and after it
  storeSelectedNodes,  \* GraphStore: state.selectedNodes, a Set in insertion order
  mounted,         \* per component that uses useEventBus: whether it is mounted, its
                   \* event prop and the subscriptionId its effect holds
  received         \* per observed subscription id: the eventData its callback was
                   \* invoked with, oldest first

busVars == <<events, middleware, eventHistory, maxHistorySize, idCounter, stack,
             last, attempts, threw, matchCall>>

mgrVars == <<undoStack, redoStack, hmMaxHistorySize, selectedNodes, selectedEdges,
             selectionHistory, smMaxHistorySize, calls, trace>>

uiVars == <<storeSelectedNodes, mounted, received>>

vars == <<busVars, mgrVars, uiVars>>

(***************************************************************************)
(* Bounds of the model.                                                    *)
(***************************************************************************)
\* subscribe and publish calls (each draws one id from idCounter) per behaviour
MaxId == 4
\* subscriptions registered at the same time
MaxSubs == 2
\* publish calls in progress at the same time (nested in subscriber callbacks)
MaxDepth == 2
\* middleware registered by use(), besides the singleton's logger
MaxMiddleware == 2
\* subscriptions of the priority law
MaxPrioritySubs == 4
\* segments of a pattern / of an event name handed to _matchWildcard directly
MaxPatternLen == 3
MaxEventLen == 4
\* subscribe and publish calls per behaviour of the history specification
MaxHistoryId == 106
\* HistoryManager calls per behaviour
MaxHmOps == 4
\* SelectionManager calls per behaviour
MaxSmOps == 4
MaxTraceOps == 22
MaxStoreOps == 3
MaxHookId == 5
MaxReentrantId == 6
MaxListenerOps == 3


\* event names and patterns of the general specification
AB == <<"a", "b">>
AC == <<"a", "c">>
AStar == <<"a", "*">>
ARest == <<"a", "**">>

\* the event names and patterns handed to _matchWildcard directly
EventSegments == {"a", "b"}
PatternSegments == {"a", "b", "*", "**"}
MatchEvents == UNION {[1..n -> EventSegments] : n \in 1..MaxEventLen}
MatchPatterns == UNION {[1..n -> PatternSegments] : n \in 1..MaxPatternLen}

NoFilter == [kind |-> "none", accepts |-> {}]
AcceptOnly(names) == [kind |-> "predicate", accepts |-> names]
ThrowingFilter == [kind |-> "throws", accepts |-> {}]

(***************************************************************************)
(* Pure helpers of EventBus.                                               *)
(***************************************************************************)
RECURSIVE MatchFrom(_, _, _)
\* the for loop of _matchWildcard from index i (1-based); eventParts[i] past
\* the end is undefined and differs from every pattern segment
MatchFrom(eventParts, patternParts, i) ==
  IF i > Len(patternParts) THEN Len(patternParts) = Len(eventParts)
  ELSE IF patternParts[i] = "*" THEN MatchFrom(eventParts, patternParts, i + 1)
  ELSE IF patternParts[i] = "**" THEN TRUE
  ELSE IF i > Len(eventParts) \/ patternParts[i] # eventParts[i] THEN FALSE
  ELSE MatchFrom(eventParts, patternParts, i + 1)

RECURSIVE MatchFromRestAsOne(_, _, _)
\* (mutant) '**' is handled like '*': it stands for one segment
MatchFromRestAsOne(eventParts, patternParts, i) ==
  IF i > Len(patternParts) THEN Len(patternParts) = Len(eventParts)
  ELSE IF patternParts[i] \in {"*", "**"}
       THEN MatchFromRestAsOne(eventParts, patternParts, i + 1)
  ELSE IF i > Len(eventParts) \/ patternParts[i] # eventParts[i] THEN FALSE
  ELSE MatchFromRestAsOne(eventParts, patternParts, i + 1)

_matchWildcardRestAsOne(event, pattern) == MatchFromRestAsOne(event, pattern, 1)

_matchWildcard(event, pattern) == MatchFrom(event, pattern, 1)

HasPattern(evs, pattern) == \E k \in 1..Len(evs) : evs[k].pattern = pattern

PatternIndex(evs, pattern) == CHOOSE k \in 1..Len(evs) : evs[k].pattern = pattern

\* this.events.get(pattern), as the sequence of its entries
SubsOf(evs, pattern) ==
  IF HasPattern(evs, pattern) THEN evs[PatternIndex(evs, pattern)].subs ELSE <<>>

RegisteredIds(evs) ==
  UNION {{evs[k].subs[j].id : j \in 1..Len(evs[k].subs)} : k \in 1..Len(evs)}

RECURSIVE InsertByPriority(_, _)
\* one step of a stable descending sort: x goes behind every element whose
\* priority is not lower than its own
InsertByPriority(sorted, x) ==
  IF sorted = <<>> THEN <<x>>
  ELSE IF Head(sorted).priority >= x.priority
       THEN <<Head(sorted)>> \o InsertByPriority(Tail(sorted), x)
       ELSE <<x>> \o sorted

RECURSIVE StableSortByPriority(_)
\* Array.prototype.sort with (a, b) => b.priority - a.priority (stable)
StableSortByPriority(subs) ==
  IF subs = <<>> THEN <<>>
  ELSE InsertByPriority(StableSortByPriority(SubSeq(subs, 1, Len(subs) - 1)),
                        subs[Len(subs)])

\* (mutant) the new subscription stays where subscribe appended it
_sortSubscriptionsSkipped(evs, pattern) == evs

\* _sortSubscriptions(event): the pattern keeps its place in this.events
_sortSubscriptions(evs, pattern) ==
  IF ~HasPattern(evs, pattern) THEN evs
  ELSE [evs EXCEPT ![PatternIndex(evs, pattern)].subs = StableSortByPriority(@)]

\* (mutant) the whole collection of the owning pattern is emptied
DeleteSubAll(evs, pattern, subId) ==
  IF ~HasPattern(evs, pattern) THEN evs
  ELSE [evs EXCEPT ![PatternIndex(evs, pattern)].subs = <<>>]

\* this.events.get(pattern).delete(subId), nothing when either is absent
DeleteSub(evs, pattern, subId) ==
  IF ~HasPattern(evs, pattern) THEN evs
  ELSE [evs EXCEPT ![PatternIndex(evs, pattern)].subs =
          SelectSeq(@, LAMBDA s : s.id # subId)]

\* this.events.delete(pattern) for every pattern of the set
DeletePatterns(evs, patterns) == SelectSeq(evs, LAMBDA e : e.pattern \notin patterns)

RECURSIVE WildcardSubs(_, _, _)
\* the second loop of _findSubscriptions from entry k on
WildcardSubs(evs, event, k) ==
  IF k > Len(evs) THEN <<>>
  ELSE (IF evs[k].pattern # event /\ _matchWildcard(event, evs[k].pattern)
        THEN evs[k].subs ELSE <<>>) \o WildcardSubs(evs, event, k + 1)

_findSubscriptions(evs, event) == SubsOf(evs, event) \o WildcardSubs(evs, event, 1)

RECURSIVE MiddlewareFrom(_, _, _)
\* the loop of _runMiddleware from index k on: the indices run, and the verdict
MiddlewareFrom(mws, event, k) ==
  IF k > Len(mws) THEN [cancelled |-> FALSE, ran |-> <<>>]
  ELSE IF event \in mws[k].cancels THEN [cancelled |-> TRUE, ran |-> <<k>>]
  ELSE LET rest == MiddlewareFrom(mws, event, k + 1)
       IN  [cancelled |-> rest.cancelled, ran |-> <<k>> \o rest.ran]

\* (mutant) the loop does not return at the first cancellation
_runMiddlewareAll(mws, event) ==
  [cancelled |-> \E k \in 1..Len(mws) : event \in mws[k].cancels,
   ran |-> [k \in 1..Len(mws) |-> k]]

_runMiddleware(mws, event) == MiddlewareFrom(mws, event, 1)

\* (mutant) nothing is shifted out
_addToHistoryUnbounded(history, eventData, maxSize) == Append(history, eventData)

_addToHistory(history, eventData, maxSize) ==
  LET pushed == Append(history, eventData)
  IN  IF Len(pushed) > maxSize THEN Tail(pushed) ELSE pushed

IdsOf(subs) == [j \in 1..Len(subs) |-> subs[j].id]

(***************************************************************************)
(* The state after `new EventBus()` and the singleton's logger middleware  *)
(* (which returns undefined, so it never cancels).                         *)
(***************************************************************************)
LoggerMiddleware == [cancels |-> {}]

\* the managers before any call (no SelectionManager instance has subscribed)
NoManagers ==
  /\ undoStack = <<>>
  /\ redoStack = <<>>
  /\ hmMaxHistorySize = 50
  /\ selectedNodes = <<>>
  /\ selectedEdges = <<>>
  /\ selectionHistory = <<>>
  /\ smMaxHistorySize = 20
  /\ calls = <<>>
  /\ trace = <<>>

Components == {"c1", "c2"}

Unmounted == [mounted |-> FALSE, event |-> <<>>, subscriptionId |-> 0, held |-> {}]

\* the GraphStore before any call, and no component mounted
NoComponents ==
  /\ storeSelectedNodes = <<>>
  /\ mounted = [c \in Components |-> Unmounted]
  /\ received = <<>>

Init ==
  /\ NoManagers
  /\ NoComponents
  /\ events = <<>>
  /\ middleware = <<LoggerMiddleware>>
  /\ eventHistory = <<>>
  /\ maxHistorySize = 100
  /\ idCounter = 0
  /\ stack = <<>>
  /\ last = [op |-> "init"]
  /\ attempts = <<>>
  /\ threw = {}
  /\ matchCall = [op |-> "none"]

\* a fresh bus, and the arguments of one direct _matchWildcard call
InitMatch ==
  /\ NoManagers
  /\ NoComponents
  /\ events = <<>>
  /\ middleware = <<LoggerMiddleware>>
  /\ eventHistory = <<>>
  /\ maxHistorySize = 100
  /\ idCounter = 0
  /\ stack = <<>>
  /\ last = [op |-> "init"]
  /\ attempts = <<>>
  /\ threw = {}
  /\ \E e \in MatchEvents, p \in MatchPatterns :
       matchCall = [op |-> "arguments", event |-> e, pattern |-> p]

(***************************************************************************)
(* Who may call the bus: dispatch is synchronous, so while a publish is    *)
(* in progress only the subscriber callback it is running can call.        *)
(***************************************************************************)
Top == stack[Len(stack)]

\* (mutant) the return of a publish ends every publish in progress
PopAll(st) == <<>>

\* the publish call at the top of the stack returns
Pop(st) == SubSeq(st, 1, Len(st) - 1)

SetTop(st, f) == [st EXCEPT ![Len(st)] = f]

CanCall == IF stack = <<>> THEN TRUE ELSE Top.running

\* (mutant) the forEach reads the registry as it is now
PassListLive(f, evs) == _findSubscriptions(evs, f.event.name)

\* the array the forEach of publish iterates: the local `subscriptions`
PassList(f, evs) == f.subscriptions

\* the value publish returns once the forEach is over (visited, filtered,
\* stale and resolved are observations)
PublishResult(f) ==
  [op |-> "publish", id |-> f.event.id, name |-> f.event.name, cancelled |-> FALSE,
   delivered |-> f.delivered, errors |-> f.errors, ran |-> f.ran,
   resolved |-> IdsOf(f.subscriptions), visited |-> f.visited,
   filtered |-> f.filtered, stale |-> f.stale]

\* the end of one forEach iteration: on to the next element, or past the
\* last one: _addToHistory(eventData) and return { delivered, errors, eventData }
Continue(f, evs) ==
  IF f.i <= Len(PassList(f, evs))
  THEN /\ stack' = SetTop(stack, f)
       /\ last' = [op |-> "deliver"]
       /\ UNCHANGED eventHistory
  ELSE /\ stack' = Pop(stack)
       /\ eventHistory' = _addToHistory(eventHistory, f.event, maxHistorySize)
       /\ last' = PublishResult(f)

\* (mutant) delivered is counted before the callback is called
OnThrowCounted(f, subId) ==
  [f EXCEPT !.delivered = @ + 1, !.errors = Append(@, subId), !.i = @ + 1,
            !.running = FALSE]

\* catch (error) { errors.push({ subId, error: error.message }) }
OnThrow(f, subId) == [f EXCEPT !.errors = Append(@, subId), !.i = @ + 1, !.running = FALSE]

\* delivered++ once the callback has returned
OnReturn(f) == [f EXCEPT !.delivered = @ + 1, !.i = @ + 1, !.running = FALSE]

\* if (subscription.options.once) this.events.get(event)?.delete(subId)
RemoveOnce(evs, event, sub) ==
  IF sub.once THEN DeleteSub(evs, event, sub.id) ELSE evs

\* (mutant) no filter result makes the forEach skip a subscription
FilterRejectsNever(filter, eventData) == FALSE

\* subscription.options.filter && !subscription.options.filter(eventData),
\* for a filter that returns
FilterRejects(filter, eventData) ==
  filter.kind = "predicate" /\ eventData.name \notin filter.accepts

(***************************************************************************)
(* Operations.                                                             *)
(***************************************************************************)
subscribe(pattern, priority, once, filter) ==
  /\ CanCall
  /\ LET subscriptionId == idCounter + 1
         withPattern == IF HasPattern(events, pattern) THEN events
                        ELSE Append(events, [pattern |-> pattern, subs |-> <<>>])
         withSub == [withPattern EXCEPT ![PatternIndex(withPattern, pattern)].subs =
                       Append(@, [id |-> subscriptionId, priority |-> priority,
                                  once |-> once, filter |-> filter])]
     IN  /\ idCounter' = subscriptionId
         /\ events' = _sortSubscriptions(withSub, pattern)
         /\ last' = [op |-> "subscribe", id |-> subscriptionId, pattern |-> pattern]
  /\ attempts' = Append(attempts, 0)
  /\ UNCHANGED <<middleware, eventHistory, maxHistorySize, stack, threw, matchCall, mgrVars>>

\* unsubscribe('sub_<id>')
unsubscribeId(subscriptionId) ==
  /\ CanCall
  /\ LET owners == {k \in 1..Len(events) :
                      \E j \in 1..Len(events[k].subs) : events[k].subs[j].id = subscriptionId}
     IN  IF owners = {}
         THEN /\ last' = [op |-> "unsubscribe", by |-> "id", arg |-> subscriptionId,
                          removed |-> FALSE]
              /\ UNCHANGED events
         ELSE /\ events' = DeleteSub(events, events[CHOOSE k \in owners : TRUE].pattern,
                                     subscriptionId)
              /\ last' = [op |-> "unsubscribe", by |-> "id", arg |-> subscriptionId,
                          removed |-> TRUE]
  /\ UNCHANGED <<middleware, eventHistory, maxHistorySize, idCounter, stack, attempts, threw, matchCall, mgrVars>>

\* unsubscribe(pattern) with an argument that does not start with 'sub_'
unsubscribePattern(pattern) ==
  /\ CanCall
  /\ IF HasPattern(events, pattern)
     THEN /\ events' = DeletePatterns(events, {pattern})
          /\ last' = [op |-> "unsubscribe", by |-> "pattern", arg |-> pattern,
                      removed |-> TRUE]
     ELSE LET hit == {events[k].pattern : k \in {k \in 1..Len(events) :
                                            _matchWildcard(events[k].pattern, pattern)}}
          IN  /\ events' = DeletePatterns(events, hit)
              /\ last' = [op |-> "unsubscribe", by |-> "pattern", arg |-> pattern,
                          removed |-> hit # {}]
  /\ UNCHANGED <<middleware, eventHistory, maxHistorySize, idCounter, stack, attempts, threw, matchCall, mgrVars, uiVars>>

use(mw) ==
  /\ CanCall
  /\ middleware' = Append(middleware, mw)
  /\ last' = [op |-> "use"]
  /\ UNCHANGED <<events, eventHistory, maxHistorySize, idCounter, stack, attempts, threw, matchCall, mgrVars, uiVars>>

clearHistory ==
  /\ CanCall
  /\ eventHistory' = <<>>
  /\ last' = [op |-> "clearHistory"]
  /\ UNCHANGED <<events, middleware, maxHistorySize, idCounter, stack, attempts, threw, matchCall, mgrVars, uiVars>>

\* publish(event) up to the forEach: the event is built, the middleware run,
\* the subscriptions found
publish(event) ==
  /\ CanCall
  /\ idCounter' = idCounter + 1
  /\ attempts' = Append(attempts, 0)
  /\ LET eventData == [id |-> idCounter + 1, name |-> event]
         middlewareResult == _runMiddleware(middleware, event)
         subscriptions == _findSubscriptions(events, event)
     IN  IF middlewareResult.cancelled
         THEN /\ last' = [op |-> "publish", id |-> eventData.id, name |-> event,
                          cancelled |-> TRUE, delivered |-> 0, errors |-> <<>>,
                          ran |-> middlewareResult.ran, resolved |-> <<>>,
                          visited |-> <<>>, filtered |-> 0, stale |-> FALSE]
              /\ UNCHANGED <<stack, eventHistory>>
         ELSE IF Len(subscriptions) = 0
         THEN /\ last' = [op |-> "publish", id |-> eventData.id, name |-> event,
                          cancelled |-> FALSE, delivered |-> 0, errors |-> <<>>,
                          ran |-> middlewareResult.ran, resolved |-> <<>>,
                          visited |-> <<>>, filtered |-> 0, stale |-> FALSE]
              /\ UNCHANGED <<stack, eventHistory>>
         ELSE /\ stack' = Append(stack, [event |-> eventData, subscriptions |-> subscriptions,
                                         i |-> 1, delivered |-> 0, errors |-> <<>>,
                                         running |-> FALSE, current |-> 0,
                                         ran |-> middlewareResult.ran, visited |-> <<>>,
                                         filtered |-> 0, stale |-> FALSE])
              /\ last' = [op |-> "deliver"]
              /\ UNCHANGED eventHistory
  /\ UNCHANGED <<events, middleware, maxHistorySize, threw, matchCall>>

\* one forEach iteration up to the call of the callback: the filter is
\* applied inside the try, so a filter that throws is recorded like a
\* callback that throws
visit ==
  /\ stack # <<>>
  /\ ~Top.running
  /\ Top.i <= Len(PassList(Top, events))
  /\ LET sub == PassList(Top, events)[Top.i]
         f == [Top EXCEPT !.current = sub, !.visited = Append(@, sub.id)]
     IN  CASE sub.filter.kind = "throws" ->
                /\ Continue(OnThrow(f, sub.id), events)
                /\ UNCHANGED <<attempts, threw>>
           [] FilterRejects(sub.filter, f.event) ->
                /\ Continue([f EXCEPT !.i = @ + 1, !.filtered = @ + 1], events)
                /\ UNCHANGED <<attempts, threw>>
           [] OTHER ->
                /\ stack' = SetTop(stack, [f EXCEPT !.running = TRUE,
                                       !.stale = @ \/ sub.id \notin RegisteredIds(events)])
                /\ attempts' = [attempts EXCEPT ![sub.id] = IF @ < 2 THEN @ + 1 ELSE @]
                /\ last' = [op |-> "call"]
                /\ UNCHANGED <<eventHistory, threw>>
  /\ UNCHANGED <<events, middleware, maxHistorySize, idCounter, matchCall, mgrVars, uiVars>>

\* the running callback returns
callbackReturn ==
  /\ stack # <<>>
  /\ Top.running
  /\ LET evs == RemoveOnce(events, Top.event.name, Top.current)
     IN  /\ events' = evs
         /\ Continue(OnReturn(Top), evs)
  /\ UNCHANGED <<middleware, maxHistorySize, idCounter, attempts, threw, matchCall, mgrVars, uiVars>>

\* the running callback throws an Error
callbackThrow ==
  /\ stack # <<>>
  /\ Top.running
  /\ threw' = threw \cup {Top.current.id}
  /\ Continue(OnThrow(Top, Top.current.id), events)
  /\ UNCHANGED <<events, middleware, maxHistorySize, idCounter, attempts, matchCall, mgrVars, uiVars>>

\* a direct call _matchWildcard(event, pattern) on the arguments drawn
matchWildcardCall ==
  /\ matchCall.op = "arguments"
  /\ matchCall' = [op |-> "match", event |-> matchCall.event,
                   pattern |-> matchCall.pattern,
                   result |-> _matchWildcard(matchCall.event, matchCall.pattern)]
  /\ UNCHANGED <<events, middleware, eventHistory, maxHistorySize, idCounter, stack,
                 last, attempts, threw, mgrVars, uiVars>>

(***************************************************************************)
(* The general specification: subscribe, unsubscribe by id and publish,    *)
(* from the top level and from inside running callbacks, with exact and    *)
(* wildcard patterns, priorities, once and filters.                        *)
(***************************************************************************)
Patterns == {AB, AStar}
Names == {AB, AC}
Priorities == {0, 1}
Filters == {NoFilter, AcceptOnly({AC}), ThrowingFilter}

HasRoom == idCounter < MaxId

Subscribe ==
  \E p \in Patterns, pr \in Priorities, o \in BOOLEAN, f \in Filters :
    /\ HasRoom
    /\ Cardinality(RegisteredIds(events)) < MaxSubs
    /\ subscribe(p, pr, o, f)
    /\ UNCHANGED uiVars

UnsubscribeId == \E id \in 1..MaxId : unsubscribeId(id) /\ UNCHANGED uiVars

Publish ==
  \E n \in Names :
    /\ HasRoom
    /\ Len(stack) < MaxDepth
    /\ publish(n)
    /\ UNCHANGED <<mgrVars, uiVars>>

Next ==
  \/ Subscribe
  \/ UnsubscribeId
  \/ Publish
  \/ visit
  \/ callbackReturn
  \/ callbackThrow

Spec == Init /\ [][Next]_vars

(***************************************************************************)
(* Properties of the general specification.                                *)
(***************************************************************************)
Returned == last.op = "publish" /\ ~last.cancelled

ToSet(seq) == {seq[j] : j \in 1..Len(seq)}

NoDuplicates(seq) == \A i, j \in 1..Len(seq) : i # j => seq[i] # seq[j]

AllSubs(evs) == UNION {ToSet(evs[k].subs) : k \in 1..Len(evs)}

\* C1: a publish that no middleware cancels and that no subscription matches
\* returns delivered = 0 and its event is the newest entry of the history.
UnmatchedPublishRecorded ==
  (Returned /\ last.resolved = <<>>) =>
    /\ last.delivered = 0
    /\ eventHistory # <<>>
    /\ eventHistory[Len(eventHistory)].id = last.id

\* C2: the subscriptions a delivery pass visits, and their order, are those
\* resolved before its first callback ran, whatever the callbacks of the pass
\* subscribe or unsubscribe: at every moment the visited ones are a prefix of
\* the resolved list, and at the return they are the whole list.
SnapshotFixed ==
  /\ \A k \in 1..Len(stack) :
       /\ Len(stack[k].visited) = (IF stack[k].running THEN stack[k].i ELSE stack[k].i - 1)
       /\ Len(stack[k].visited) <= Len(stack[k].subscriptions)
       /\ stack[k].visited =
            SubSeq(IdsOf(stack[k].subscriptions), 1, Len(stack[k].visited))
  /\ Returned => last.visited = last.resolved

\* C2 witness: a pass has returned in which a subscription was visited after
\* a callback of the pass had unsubscribed it, and a callback of the pass
\* registered a matching subscription that the pass did not visit.
SnapshotFixedWitness ==
  /\ Returned
  /\ last.stale
  /\ \E sub \in ToSet(_findSubscriptions(events, last.name)) :
       sub.id > last.id /\ sub.id \notin ToSet(last.visited)

PriorityOrdered(subs) ==
  \A i, j \in 1..Len(subs) :
    i < j => \/ subs[i].priority > subs[j].priority
             \/ subs[i].priority = subs[j].priority /\ subs[i].id < subs[j].id

\* C3: the subscriptions resolved for a publish, those of the exact name and
\* those of the matching wildcard patterns together, are in descending
\* priority order: none is invoked before one of higher priority.
ResolvedInPriorityOrder ==
  \A k \in 1..Len(stack) :
    \A i, j \in 1..Len(stack[k].subscriptions) :
      i < j => stack[k].subscriptions[i].priority >= stack[k].subscriptions[j].priority

\* C5: the callback of a once-subscription is invoked at most once, and once
\* the publish in which it was invoked has returned the subscription is no
\* longer registered.
OnceInvokedOnce ==
  /\ \A k \in 1..Len(stack) :
       (stack[k].running /\ stack[k].current.once) => attempts[stack[k].current.id] <= 1
  /\ stack = <<>> => \A sub \in AllSubs(events) : sub.once => attempts[sub.id] = 0

\* C6: when a publish returns, no once-subscription whose callback threw in
\* that pass is still registered (stated for the subscriptions registered
\* under the published name itself).
OnceConsumedOnThrow ==
  Returned =>
    \A sub \in ToSet(SubsOf(events, last.name)) :
      sub.once => ~(sub.id \in ToSet(last.errors) /\ sub.id \in threw)

\* C7: when a publish returns after a delivery pass, every resolved
\* subscription was visited, each failure has exactly one errors entry,
\* and delivered + errors + filtered-out = the size of the resolved set.
DeliveryAccounting ==
  Returned =>
    /\ Len(last.visited) = Len(last.resolved)
    /\ NoDuplicates(last.errors)
    /\ ToSet(last.errors) \subseteq ToSet(last.resolved)
    /\ last.delivered + Len(last.errors) + last.filtered = Len(last.resolved)

\* C7 witness: a pass of two subscriptions has returned in which the first
\* callback threw and the second was still delivered.
DeliveryAccountingWitness ==
  /\ Returned
  /\ Len(last.resolved) = 2
  /\ last.errors = <<last.resolved[1]>>
  /\ last.resolved[1] \in threw
  /\ last.delivered = 1

\* the registry without the subscription id: every pattern keeps its place
\* and the other subscriptions keep their order
Without(evs, id) ==
  [k \in 1..Len(evs) |->
     [pattern |-> evs[k].pattern,
      subs |-> SelectSeq(evs[k].subs, LAMBDA s : s.id # id)]]

\* C11: unsubscribe(id) of a registered subscription id removes exactly that
\* subscription, keeps every other subscription of every pattern in its
\* order and returns true; of an id that is not registered it returns false
\* and changes nothing.  An id that has left the registry never comes back,
\* and a publish resolves only subscriptions that are registered when it is
\* called, so no publish called after the removal invokes the callback.
UnsubscribeById ==
  [][/\ (last'.op = "unsubscribe" /\ last'.by = "id") =>
          IF last'.arg \in RegisteredIds(events)
          THEN last'.removed /\ events' = Without(events, last'.arg)
          ELSE ~last'.removed /\ events' = events
     /\ \A id \in 1..idCounter :
          id \notin RegisteredIds(events) => id \notin RegisteredIds(events')
     /\ Len(stack') > Len(stack) =>
          ToSet(IdsOf(stack'[Len(stack')].subscriptions)) \subseteq RegisteredIds(events)]_vars

\* C11 witness: while a publish is in progress a callback has unsubscribed
\* one of the two subscriptions of a pattern by its id; the other is still
\* registered.
UnsubscribeByIdWitness ==
  /\ last.op = "unsubscribe"
  /\ last.by = "id"
  /\ last.removed
  /\ stack # <<>>
  /\ Len(events) = 1
  /\ Len(events[1].subs) = 1

\* C29: while a publish made by a callback is in progress the outer pass
\* stays inside that callback; the nested publish iterates the subscribers
\* it resolved from the registry at its own call; when its pass returns it
\* has attempted each of them once and written its event to the history,
\* and the outer pass is where it was (so is it after a nested publish that
\* returns at once, cancelled or without a subscriber); every pass that
\* returns has attempted each subscription of its own snapshot exactly once.
NestedPublishCompletes ==
  /\ [](\A k \in 1..(Len(stack) - 1) : stack[k].running)
  /\ [][Len(stack') > Len(stack) =>
          LET f == stack'[Len(stack')]
          IN  /\ SubSeq(stack', 1, Len(stack)) = stack
              /\ f.subscriptions = _findSubscriptions(events, f.event.name)
              /\ f.i = 1
              /\ f.visited = <<>>
              /\ ~f.running]_vars
  /\ [][Len(stack') < Len(stack) =>
          /\ stack' = SubSeq(stack, 1, Len(stack) - 1)
          /\ last'.op = "publish"
          /\ last'.id = Top.event.id
          /\ last'.resolved = IdsOf(Top.subscriptions)
          /\ last'.visited = last'.resolved
          /\ NoDuplicates(last'.visited)
          /\ eventHistory' # <<>>
          /\ eventHistory'[Len(eventHistory')] = Top.event]_vars
  /\ [][(Len(stack') = Len(stack) /\ stack # <<>>) =>
          /\ SubSeq(stack', 1, Len(stack) - 1) = SubSeq(stack, 1, Len(stack) - 1)
          /\ Top.subscriptions = stack'[Len(stack')].subscriptions]_vars

\* C29 witness: a publish made by the first of two subscribers of an outer
\* pass has just returned, having delivered its event and written it to
\* the history, and the outer pass is still inside that first callback.
NestedPublishCompletesWitness ==
  /\ Len(stack) = 1
  /\ Top.running
  /\ Top.i = 1
  /\ Len(Top.subscriptions) = 2
  /\ Returned
  /\ last.id > Top.event.id
  /\ last.delivered >= 1
  /\ eventHistory # <<>>
  /\ eventHistory[Len(eventHistory)].id = last.id

\* the forEach is about to visit a subscription whose filter returns false
\* for the event of the pass
AtRejected ==
  /\ stack # <<>>
  /\ ~Top.running
  /\ Top.i <= Len(Top.subscriptions)
  /\ Top.subscriptions[Top.i].filter.kind = "predicate"
  /\ Top.event.name \notin Top.subscriptions[Top.i].filter.accepts

\* C30: the visit of a subscription whose filter returns false invokes no
\* callback, leaves delivered and errors as they are and the registry as
\* it is (a once-subscription stays registered), and the pass goes on to
\* the next subscription of its snapshot, or returns if there is none.
FilterSkips ==
  [][AtRejected =>
       /\ attempts' = attempts
       /\ threw' = threw
       /\ events' = events
       /\ IF Top.i < Len(Top.subscriptions)
          THEN /\ Len(stack') = Len(stack)
               /\ stack'[Len(stack')] =
                    [Top EXCEPT !.i = @ + 1, !.filtered = @ + 1,
                                !.current = Top.subscriptions[Top.i],
                                !.visited = Append(@, Top.subscriptions[Top.i].id)]
          ELSE /\ stack' = SubSeq(stack, 1, Len(stack) - 1)
               /\ last'.op = "publish"
               /\ last'.delivered = Top.delivered
               /\ last'.errors = Top.errors
               /\ last'.visited = IdsOf(Top.subscriptions)]_vars

\* C30 witness: a publish of a.b has returned with delivered = 1 and no
\* error after visiting first a once-subscription whose filter returned
\* false, which is still registered and was never invoked, and then a
\* subscription it delivered to.
FilterSkipsWitness ==
  /\ stack = <<>>
  /\ Returned
  /\ last.name = AB
  /\ Len(last.visited) = 2
  /\ last.filtered = 1
  /\ last.delivered = 1
  /\ last.errors = <<>>
  /\ \E sub \in AllSubs(events) :
       /\ sub.id = last.visited[1]
       /\ sub.once
       /\ sub.filter = AcceptOnly({AC})
       /\ attempts[sub.id] = 0

\* the once-subscriptions still registered under a pattern of the set
\* patterns whose callback has been invoked and has not thrown
OnceDeliveredStillRegistered(patterns) ==
  {sub \in UNION {ToSet(events[k].subs) :
                    k \in {j \in 1..Len(events) : events[j].pattern \in patterns}} :
     sub.once /\ attempts[sub.id] >= 1 /\ sub.id \notin threw}

\* C32: once no publish is in progress, a once-subscription whose callback
\* has been invoked and has returned is no longer in the registry, under
\* the wildcard pattern a.* as under the exact name a.b.
OnceWildcardRemoved ==
  stack = <<>> => OnceDeliveredStillRegistered({AB, AStar}) = {}

(***************************************************************************)
(* The re-entrancy specification: subscriptions, once or not, on the exact *)
(* name a.b only, registered from the top level; a.b is published from the *)
(* top level and from inside running callbacks, which all return; until    *)
(* MaxReentrantId ids are drawn.                                           *)
(***************************************************************************)
SubscribeReentrant ==
  \E o \in BOOLEAN :
    /\ stack = <<>>
    /\ idCounter < MaxReentrantId
    /\ Cardinality(RegisteredIds(events)) < MaxSubs
    /\ subscribe(AB, 0, o, NoFilter)
    /\ UNCHANGED uiVars

PublishReentrant ==
  /\ idCounter < MaxReentrantId
  /\ Len(stack) < MaxDepth
  /\ publish(AB)
  /\ UNCHANGED <<mgrVars, uiVars>>

NextReentrant ==
  \/ SubscribeReentrant
  \/ PublishReentrant
  \/ visit
  \/ callbackReturn

SpecReentrant == Init /\ [][NextReentrant]_vars

\* C33: the callback of a once-subscription is never running for the
\* second time, whatever is published from inside the callbacks of a pass.
OnceAtMostOnceReentrant ==
  \A k \in 1..Len(stack) :
    (stack[k].running /\ stack[k].current.once) => attempts[stack[k].current.id] <= 1

\* C34: the bus history holds its events in the order of their publish
\* calls, that is by strictly ascending event id.
HistoryInPublishOrder ==
  \A j \in 1..(Len(eventHistory) - 1) : eventHistory[j].id < eventHistory[j + 1].id

(***************************************************************************)
(* The priority specification: calls from the top level only, exact        *)
(* patterns, priorities 0, 1 and 5, up to MaxPrioritySubs subscriptions.   *)
(***************************************************************************)
LawPriorities == {0, 1, 5}

SubscribePriority ==
  \E p \in {AB, AC}, pr \in LawPriorities :
    /\ stack = <<>>
    /\ idCounter < MaxPrioritySubs + 1
    /\ Cardinality(RegisteredIds(events)) < MaxPrioritySubs
    /\ subscribe(p, pr, FALSE, NoFilter)
    /\ UNCHANGED uiVars

UnsubscribeIdPriority ==
  \E id \in 1..(MaxPrioritySubs + 1) :
    stack = <<>> /\ unsubscribeId(id) /\ UNCHANGED uiVars

UnsubscribePatternPriority ==
  \E p \in {AB, AC} : stack = <<>> /\ unsubscribePattern(p)

PublishPriority ==
  \E n \in {AB, AC} :
    /\ stack = <<>>
    /\ idCounter < MaxPrioritySubs + 1
    /\ publish(n)
    /\ UNCHANGED <<mgrVars, uiVars>>

NextPriority ==
  \/ SubscribePriority
  \/ UnsubscribeIdPriority
  \/ UnsubscribePatternPriority
  \/ PublishPriority
  \/ visit
  \/ callbackReturn

SpecPriority == Init /\ [][NextPriority]_vars

RECURSIVE InsertById(_, _)
InsertById(sorted, x) ==
  IF sorted = <<>> THEN <<x>>
  ELSE IF Head(sorted).id < x.id THEN <<Head(sorted)>> \o InsertById(Tail(sorted), x)
  ELSE <<x>> \o sorted

RECURSIVE InRegistrationOrder(_)
\* the subscriptions of a collection in the order they were registered
InRegistrationOrder(subs) ==
  IF subs = <<>> THEN <<>> ELSE InsertById(InRegistrationOrder(Tail(subs)), Head(subs))

PrioritiesOf(subs) == [j \in 1..Len(subs) |-> subs[j].priority]

IsLawScenario(subs) == PrioritiesOf(InRegistrationOrder(subs)) = <<5, 1, 5, 0>>

LawOrder(subs) ==
  LET reg == InRegistrationOrder(subs)
  IN  <<reg[1].id, reg[3].id, reg[2].id, reg[4].id>>

\* C4: every registered pattern is one key of the registry, whose collection
\* is in descending priority order, equal priorities in registration order;
\* a publish delivers in the order of the collection, so subscriptions
\* registered with priorities 5, 1, 5, 0 are delivered sub0, sub2, sub1, sub3.
PriorityLaw ==
  /\ \A k, l \in 1..Len(events) : events[k].pattern = events[l].pattern => k = l
  /\ \A k \in 1..Len(events) :
       /\ PriorityOrdered(events[k].subs)
       /\ IsLawScenario(events[k].subs) => IdsOf(events[k].subs) = LawOrder(events[k].subs)
  /\ Returned =>
       /\ last.visited = IdsOf(SubsOf(events, last.name))
       /\ IsLawScenario(SubsOf(events, last.name)) =>
            last.visited = LawOrder(SubsOf(events, last.name))

\* C4 witness: a publish has delivered to four subscriptions of one pattern
\* registered with priorities 5, 1, 5, 0 in that order.
PriorityLawWitness ==
  /\ Returned
  /\ IsLawScenario(SubsOf(events, last.name))
  /\ last.delivered = 4

\* C12: unsubscribe(pattern) returns true exactly when it removed at least
\* one subscription.
UnsubscribePatternResult ==
  [][(last'.op = "unsubscribe" /\ last'.by = "pattern") =>
       (last'.removed <=> RegisteredIds(events') # RegisteredIds(events))]_vars

(***************************************************************************)
(* The middleware specification: use() with middleware that cancel no      *)
(* event, the events named a.b, or every event.                            *)
(***************************************************************************)
MiddlewareChoices == {[cancels |-> {}], [cancels |-> {AB}], [cancels |-> {AB, AC}]}

UseMiddleware ==
  \E mw \in MiddlewareChoices :
    /\ Len(middleware) < 1 + MaxMiddleware
    /\ use(mw)

SubscribeMiddleware ==
  \E p \in Patterns, o \in BOOLEAN :
    /\ HasRoom
    /\ Cardinality(RegisteredIds(events)) < MaxSubs
    /\ subscribe(p, 0, o, NoFilter)
    /\ UNCHANGED uiVars

NextMiddleware ==
  \/ UseMiddleware
  \/ SubscribeMiddleware
  \/ Publish
  \/ visit
  \/ callbackReturn
  \/ callbackThrow

SpecMiddleware == Init /\ [][NextMiddleware]_vars

FirstIndices(n) == [j \in 1..n |-> j]

\* C8: the middleware run in registration order before the subscriptions are
\* resolved.  A publish that a middleware cancels ran the middleware up to
\* the first cancelling one and none after it, starts no delivery pass,
\* invokes no callback, leaves the history and the registry (so every
\* once-subscription) as they were, and returns cancelled: true.  A publish
\* that starts a delivery pass ran every middleware and none cancelled.
MiddlewareCancels ==
  [][/\ (last'.op = "publish" /\ last'.cancelled /\ idCounter' = idCounter + 1) =>
          /\ Len(last'.ran) \in 1..Len(middleware)
          /\ last'.ran = FirstIndices(Len(last'.ran))
          /\ last'.name \in middleware[Len(last'.ran)].cancels
          /\ \A j \in 1..(Len(last'.ran) - 1) : last'.name \notin middleware[j].cancels
          /\ stack' = stack
          /\ SubSeq(attempts', 1, Len(attempts)) = attempts
          /\ eventHistory' = eventHistory
          /\ events' = events
     /\ (last'.op = "deliver" /\ idCounter' = idCounter + 1) =>
          /\ stack'[Len(stack')].ran = FirstIndices(Len(middleware))
          /\ \A j \in 1..Len(middleware) :
               stack'[Len(stack')].event.name \notin middleware[j].cancels]_vars

\* C8 witness: a publish was cancelled by a middleware that is not the last
\* one registered, while a matching once-subscription is registered.
MiddlewareCancelsWitness ==
  /\ last.op = "publish"
  /\ last.cancelled
  /\ Len(last.ran) < Len(middleware)
  /\ \E sub \in ToSet(_findSubscriptions(events, last.name)) : sub.once

(***************************************************************************)
(* The wildcard specification: the patterns and names of the wildcard law, *)
(* calls from the top level only.                                          *)
(***************************************************************************)
A1 == <<"a">>
ABC == <<"a", "b", "c">>
ABDC == <<"a", "b", "d", "c">>
AStarC == <<"a", "*", "c">>

SubscribeWildcard ==
  \E p \in {AStarC, ARest} :
    /\ stack = <<>>
    /\ HasRoom
    /\ Cardinality(RegisteredIds(events)) < MaxSubs
    /\ subscribe(p, 0, FALSE, NoFilter)
    /\ UNCHANGED uiVars

PublishWildcard ==
  \E n \in {A1, AB, AC, ABC, ABDC} :
    /\ stack = <<>>
    /\ HasRoom
    /\ publish(n)
    /\ UNCHANGED <<mgrVars, uiVars>>

NextWildcard ==
  \/ SubscribeWildcard
  \/ PublishWildcard
  \/ visit
  \/ callbackReturn

SpecWildcard == Init /\ [][NextWildcard]_vars

\* C9: a subscription on a.*.c is delivered the event a.b.c and neither
\* a.b.d.c nor a.c; a subscription on a.** is delivered a, a.b and a.b.c.
WildcardLaw ==
  Returned =>
    /\ last.delivered = Len(last.visited)
    /\ \A sub \in ToSet(SubsOf(events, AStarC)) :
         /\ last.name = ABC => sub.id \in ToSet(last.visited)
         /\ last.name \in {ABDC, AC} => sub.id \notin ToSet(last.visited)
    /\ \A sub \in ToSet(SubsOf(events, ARest)) :
         last.name \in {A1, AB, ABC} => sub.id \in ToSet(last.visited)

\* C9 witness: the event a was delivered to a subscription on a.** while a
\* subscription on a.*.c was registered and got nothing.
WildcardLawWitness ==
  /\ Returned
  /\ last.name = A1
  /\ SubsOf(events, AStarC) # <<>>
  /\ SubsOf(events, ARest) # <<>>
  /\ last.delivered = 1

(***************************************************************************)
(* The history specification: a bus with no subscription, or with one      *)
(* subscription on a.b registered first, on which a.b is published up to   *)
(* MaxHistoryId times from the top level; once the history is nearly full  *)
(* the subscriber callback may also publish a.b itself.                    *)
(***************************************************************************)
NearCapacity == Len(eventHistory) + 3 >= maxHistorySize

SubscribeHistory ==
  /\ idCounter = 0
  /\ subscribe(AB, 0, FALSE, NoFilter)
  /\ UNCHANGED uiVars

PublishHistory ==
  /\ idCounter < MaxHistoryId
  /\ stack = <<>> \/ (NearCapacity /\ Len(stack) < MaxDepth)
  /\ publish(AB)
  /\ UNCHANGED <<mgrVars, uiVars>>

NextHistory ==
  \/ SubscribeHistory
  \/ PublishHistory
  \/ visit
  \/ callbackReturn

SpecHistory == Init /\ [][NextHistory]_vars

\* the publish calls made so far (no subscription is removed here)
PublishedCount == idCounter - Cardinality(RegisteredIds(events))

\* C13: once n publish calls have returned on a bus whose history was empty,
\* the history holds min(n, maxHistorySize) events, the most recently
\* published ones in publication order.
HistoryHoldsLatest ==
  stack = <<>> =>
    /\ Len(eventHistory) =
         (IF PublishedCount < maxHistorySize THEN PublishedCount ELSE maxHistorySize)
    /\ \A j \in 1..Len(eventHistory) :
         eventHistory[j].id = idCounter - Len(eventHistory) + j

\* C14: the history never holds more than maxHistorySize = 100 events, and
\* every change of the history is the append of one event, which at capacity
\* shifts out exactly the oldest entry and keeps the others in their order.
HistoryBounded ==
  /\ [](maxHistorySize = 100 /\ Len(eventHistory) <= maxHistorySize)
  /\ [][eventHistory' # eventHistory =>
          /\ eventHistory' # <<>>
          /\ IF Len(eventHistory) = maxHistorySize
             THEN SubSeq(eventHistory', 1, Len(eventHistory') - 1) = Tail(eventHistory)
             ELSE SubSeq(eventHistory', 1, Len(eventHistory') - 1) = eventHistory]_vars

\* C14 witness: the history is full, its oldest events have been shifted
\* out, and it holds the event of a nested publish in front of the event of
\* the publish whose subscriber made it.
HistoryBoundedWitness ==
  /\ Len(eventHistory) = maxHistorySize
  /\ eventHistory[1].id > 3
  /\ \E j \in 1..(Len(eventHistory) - 1) : eventHistory[j].id > eventHistory[j + 1].id

(***************************************************************************)
(* HistoryManager (/src/system/HistoryManager.js).  An action (a command   *)
(* object) is identified with its name; whether one of its methods returns *)
(* or throws when called is chosen by the environment.  A call of the      *)
(* manager is a frame of `calls`: it runs while the bus has returned to    *)
(* the depth at which the call was made, and each of its eventBus.publish  *)
(* calls is the bus's own publish.                                         *)
(***************************************************************************)
UndoStackChanged == <<"history", "undo", "changed">>
RedoStackChanged == <<"history", "redo", "changed">>
ActionPerformed == <<"history", "action", "performed">>

TopCall == calls[Len(calls)]

\* the code that is running is neither a manager call nor the bus's forEach
EnvironmentRuns ==
  /\ CanCall
  /\ IF calls = <<>> THEN TRUE ELSE TopCall.base < Len(stack)

\* the innermost manager call is the code that is running
ManagerRuns(mgr, pc) ==
  /\ calls # <<>>
  /\ TopCall.mgr = mgr
  /\ TopCall.pc = pc
  /\ TopCall.base = Len(stack)

HistoryState == [undo |-> undoStack, redo |-> redoStack, idCounter |-> idCounter]

\* a call that has just been made
Entered(mgr, op, arg, state) ==
  [mgr |-> mgr, op |-> op, arg |-> arg, called |-> <<>>, published |-> <<>>,
   result |-> "pending", before |-> state, after |-> state, done |-> FALSE]

\* a call that is over at once, state being what it leaves behind
Finished(entry, result, state) ==
  [entry EXCEPT !.result = result, !.after = state, !.done = TRUE]

Frame(mgr, op, pc) ==
  [mgr |-> mgr, op |-> op, pc |-> pc, base |-> Len(stack), entry |-> Len(trace) + 1,
   i |-> 0, arg |-> "none"]

SetPc(pc) == [calls EXCEPT ![Len(calls)].pc = pc]

\* the trace once the running call has published the payload under name
Published(name, payload) ==
  [trace EXCEPT ![TopCall.entry].published =
     Append(@, [name |-> name, id |-> idCounter + 1, payload |-> payload])]

\* (mutant) execute never shifts the oldest action out
LimitSkipped(undo, maxSize) == undo

\* if (this.undoStack.length > this.maxHistorySize) this.undoStack.shift()
Limit(undo, maxSize) == IF Len(undo) > maxSize THEN Tail(undo) ELSE undo

\* (mutant) execute leaves the redo stack as it is
ClearedRedoKept(redo) == redo

\* this.redoStack = []
ClearedRedo(redo) == <<>>

\* (mutant) the action goes to the bottom of the stack
PushFront(actions, action) == <<action>> \o actions

\* stack.push(action)
Push(actions, action) == Append(actions, action)

\* (mutant) the payload of an empty stack, whatever the stack holds
StackChangedStale(actions) == [size |-> 0, can |-> FALSE]

\* { size: stack.length, canUndo / canRedo: stack.length > 0 }
StackChanged(actions) == [size |-> Len(actions), can |-> Len(actions) > 0]

\* (mutant) every history.action.performed says 'undo'
PerformedAlwaysUndo(op, action) == [type |-> "undo", actionName |-> action]

\* { type: 'undo' / 'redo', actionName: action.name }
Performed(op, action) == [type |-> op, actionName |-> action]

\* (mutant) undo() / redo() on an empty stack still notify
NothingToDoNotified(entry) ==
  /\ trace' = Append(trace, entry)
  /\ calls' = Append(calls, Frame("history", entry.op, "undoChanged"))
  /\ UNCHANGED <<undoStack, redoStack>>

\* console.warn('Nothing to undo' / 'Nothing to redo'); return null
NothingToDo(entry) ==
  /\ trace' = Append(trace, Finished(entry, "null", HistoryState))
  /\ UNCHANGED <<undoStack, redoStack, calls>>

\* (mutant) the redo stack is cleared before action.execute() is called
ExecuteThrewCleared(undo, redo) == [undo |-> undo, redo |-> <<>>]

\* the stacks when action.execute(), the first statement of execute(action),
\* has thrown
ExecuteThrew(undo, redo) == [undo |-> undo, redo |-> redo]

\* execute(action) up to _notifyChange()
hmExecute(action, throws) ==
  /\ EnvironmentRuns
  /\ LET entry == [Entered("history", "execute", action, HistoryState)
                     EXCEPT !.called = <<[action |-> action, method |-> "execute"]>>]
     IN  IF throws
         THEN /\ undoStack' = ExecuteThrew(undoStack, redoStack).undo
              /\ redoStack' = ExecuteThrew(undoStack, redoStack).redo
              /\ trace' = Append(trace, Finished(entry, "threw",
                             [HistoryState EXCEPT !.undo = undoStack',
                                                  !.redo = redoStack']))
              /\ UNCHANGED calls
         ELSE /\ undoStack' = Limit(Push(undoStack, action), hmMaxHistorySize)
              /\ redoStack' = ClearedRedo(redoStack)
              /\ calls' = Append(calls, Frame("history", "execute", "undoChanged"))
              /\ trace' = Append(trace, entry)
  /\ UNCHANGED <<busVars, hmMaxHistorySize, selectedNodes, selectedEdges,
                 selectionHistory, smMaxHistorySize, uiVars>>

\* undo() up to _notifyChange()
hmUndo(throws) ==
  /\ EnvironmentRuns
  /\ LET entry == Entered("history", "undo", "none", HistoryState)
     IN  IF undoStack = <<>>
         THEN NothingToDo(entry)
         ELSE LET action == undoStack[Len(undoStack)]
                  popped == SubSeq(undoStack, 1, Len(undoStack) - 1)
                  called == [entry EXCEPT !.called =
                               <<[action |-> action, method |-> "undo"]>>]
              IN  /\ undoStack' = popped
                  /\ IF throws
                     THEN /\ trace' = Append(trace, Finished(called, "threw",
                                         [HistoryState EXCEPT !.undo = popped]))
                          /\ UNCHANGED <<redoStack, calls>>
                     ELSE /\ redoStack' = Push(redoStack, action)
                          /\ calls' = Append(calls, [Frame("history", "undo", "undoChanged")
                                                      EXCEPT !.arg = action])
                          /\ trace' = Append(trace, called)
  /\ UNCHANGED <<busVars, hmMaxHistorySize, selectedNodes, selectedEdges,
                 selectionHistory, smMaxHistorySize, uiVars>>

\* redo() up to _notifyChange()
hmRedo(throws) ==
  /\ EnvironmentRuns
  /\ LET entry == Entered("history", "redo", "none", HistoryState)
     IN  IF redoStack = <<>>
         THEN NothingToDo(entry)
         ELSE LET action == redoStack[Len(redoStack)]
                  popped == SubSeq(redoStack, 1, Len(redoStack) - 1)
                  called == [entry EXCEPT !.called =
                               <<[action |-> action, method |-> "execute"]>>]
              IN  /\ redoStack' = popped
                  /\ IF throws
                     THEN /\ trace' = Append(trace, Finished(called, "threw",
                                         [HistoryState EXCEPT !.redo = popped]))
                          /\ UNCHANGED <<undoStack, calls>>
                     ELSE /\ undoStack' = Push(undoStack, action)
                          /\ calls' = Append(calls, [Frame("history", "redo", "undoChanged")
                                                      EXCEPT !.arg = action])
                          /\ trace' = Append(trace, called)
  /\ UNCHANGED <<busVars, hmMaxHistorySize, selectedNodes, selectedEdges,
                 selectionHistory, smMaxHistorySize, uiVars>>

\* clear() up to _notifyChange()
hmClear ==
  /\ EnvironmentRuns
  /\ undoStack' = <<>>
  /\ redoStack' = <<>>
  /\ calls' = Append(calls, Frame("history", "clear", "undoChanged"))
  /\ trace' = Append(trace, Entered("history", "clear", "none", HistoryState))
  /\ UNCHANGED <<busVars, hmMaxHistorySize, selectedNodes, selectedEdges,
                 selectionHistory, smMaxHistorySize, uiVars>>

\* _notifyChange(): eventBus.publish(HistoryEvents.UNDO_STACK_CHANGED, ...)
notifyUndoStackChanged ==
  /\ ManagerRuns("history", "undoChanged")
  /\ publish(UndoStackChanged)
  /\ calls' = SetPc("redoChanged")
  /\ trace' = Published(UndoStackChanged,
                 StackChanged(undoStack))
  /\ UNCHANGED <<undoStack, redoStack, hmMaxHistorySize, selectedNodes, selectedEdges,
                 selectionHistory, smMaxHistorySize, uiVars>>

\* _notifyChange(): eventBus.publish(HistoryEvents.REDO_STACK_CHANGED, ...)
notifyRedoStackChanged ==
  /\ ManagerRuns("history", "redoChanged")
  /\ publish(RedoStackChanged)
  /\ calls' = SetPc(IF TopCall.op \in {"undo", "redo"} THEN "performed" ELSE "return")
  /\ trace' = Published(RedoStackChanged,
                 StackChanged(redoStack))
  /\ UNCHANGED <<undoStack, redoStack, hmMaxHistorySize, selectedNodes, selectedEdges,
                 selectionHistory, smMaxHistorySize, uiVars>>

\* undo() / redo(): eventBus.publish(HistoryEvents.ACTION_PERFORMED, ...)
publishActionPerformed ==
  /\ ManagerRuns("history", "performed")
  /\ publish(ActionPerformed)
  /\ calls' = SetPc("return")
  /\ trace' = Published(ActionPerformed, Performed(TopCall.op, TopCall.arg))
  /\ UNCHANGED <<undoStack, redoStack, hmMaxHistorySize, selectedNodes, selectedEdges,
                 selectionHistory, smMaxHistorySize, uiVars>>

\* return result
hmReturn ==
  /\ ManagerRuns("history", "return")
  /\ calls' = SubSeq(calls, 1, Len(calls) - 1)
  /\ trace' = [trace EXCEPT ![TopCall.entry] = Finished(@, "value", HistoryState)]
  /\ UNCHANGED <<busVars, undoStack, redoStack, hmMaxHistorySize, selectedNodes,
                 selectedEdges, selectionHistory, smMaxHistorySize, uiVars>>

(***************************************************************************)
(* The undo/redo specification: a HistoryManager of capacity 1, 2 or the   *)
(* default 50 on a fresh bus, called from the top level up to              *)
(* MaxHmOps times with the actions A, B and C; one subscription on         *)
(* history.** may be registered first.                                     *)
(***************************************************************************)
HmSizes == {1, 2, 50}
Actions == {"A", "B", "C"}
HistoryRest == <<"history", "**">>

InitHistoryManager ==
  /\ events = <<>>
  /\ middleware = <<LoggerMiddleware>>
  /\ eventHistory = <<>>
  /\ maxHistorySize = 100
  /\ idCounter = 0
  /\ stack = <<>>
  /\ last = [op |-> "init"]
  /\ attempts = <<>>
  /\ threw = {}
  /\ matchCall = [op |-> "none"]
  /\ undoStack = <<>>
  /\ redoStack = <<>>
  /\ hmMaxHistorySize \in HmSizes
  /\ selectedNodes = <<>>
  /\ selectedEdges = <<>>
  /\ selectionHistory = <<>>
  /\ smMaxHistorySize = 20
  /\ calls = <<>>
  /\ trace = <<>>
  /\ NoComponents

TopLevel == stack = <<>> /\ calls = <<>>

SubscribeHM ==
  /\ TopLevel
  /\ idCounter = 0
  /\ subscribe(HistoryRest, 0, FALSE, NoFilter)
  /\ UNCHANGED uiVars

ExecuteHM ==
  \E a \in Actions, throws \in BOOLEAN :
    TopLevel /\ Len(trace) < MaxHmOps /\ hmExecute(a, throws)

UndoHM == \E throws \in BOOLEAN : TopLevel /\ Len(trace) < MaxHmOps /\ hmUndo(throws)

RedoHM == \E throws \in BOOLEAN : TopLevel /\ Len(trace) < MaxHmOps /\ hmRedo(throws)

ClearHM == TopLevel /\ Len(trace) < MaxHmOps /\ hmClear

NextHistoryManager ==
  \/ SubscribeHM
  \/ ExecuteHM
  \/ UndoHM
  \/ RedoHM
  \/ ClearHM
  \/ notifyUndoStackChanged
  \/ notifyRedoStackChanged
  \/ publishActionPerformed
  \/ hmReturn
  \/ visit
  \/ callbackReturn

SpecHistoryManager == InitHistoryManager /\ [][NextHistoryManager]_vars

ExecutedOk(i) == trace[i].op = "execute" /\ trace[i].result = "value"

OpsAre(ops) == Len(trace) = Len(ops) /\ \A i \in 1..Len(ops) :
  trace[i].op = ops[i] /\ trace[i].done /\ trace[i].result # "threw"

\* the calls of action methods made by all manager calls, in order
RECURSIVE CalledUpTo(_)
CalledUpTo(n) == IF n = 0 THEN <<>> ELSE CalledUpTo(n - 1) \o trace[n].called

Call(action, method) == [action |-> action, method |-> method]

EmptyUndoRedoNoOp ==
  \A i \in 1..Len(trace) :
    (\/ trace[i].op = "undo" /\ trace[i].before.undo = <<>>
     \/ trace[i].op = "redo" /\ trace[i].before.redo = <<>>) =>
      /\ trace[i].done
      /\ trace[i].result = "null"
      /\ trace[i].called = <<>>
      /\ trace[i].published = <<>>
      /\ trace[i].after = trace[i].before

\* C17 witness: an undo() on an empty undo stack and a redo() on an empty
\* redo stack have both been made, the redo() while the undo stack was not
\* empty and a subscription on the history events was registered.
EmptyUndoRedoNoOpWitness ==
  /\ \E i \in 1..Len(trace) : trace[i].op = "undo" /\ trace[i].before.undo = <<>>
  /\ \E i \in 1..Len(trace) :
       trace[i].op = "redo" /\ trace[i].before.redo = <<>> /\ trace[i].before.undo # <<>>
  /\ events # <<>>

PublishedAs(i, name) == SelectSeq(trace[i].published, LAMBDA e : e.name = name)

UndoStackBounded ==
  /\ Len(undoStack) <= hmMaxHistorySize
  /\ \A i \in 1..Len(trace) :
       ExecutedOk(i) =>
         /\ trace[i].after.undo =
              (IF Len(trace[i].before.undo) >= hmMaxHistorySize
               THEN Append(Tail(trace[i].before.undo), trace[i].arg)
               ELSE Append(trace[i].before.undo, trace[i].arg))
         /\ Len(trace[i].after.undo) <= hmMaxHistorySize

\* C19 witness: an execute() on a full undo stack has returned, after an
\* undo() and a redo() had been made.
UndoStackBoundedWitness ==
  /\ \E i \in 1..Len(trace) :
       ExecutedOk(i) /\ Len(trace[i].before.undo) = hmMaxHistorySize
  /\ \E i \in 1..Len(trace) : trace[i].op = "redo" /\ trace[i].result = "value"

\* the names of the events a call published, in order
PublishedNames(i) == [j \in 1..Len(trace[i].published) |-> trace[i].published[j].name]

\* C31: an undo() or a redo() that finds an action and returns publishes
\* history.action.performed once, as its last event after
\* history.undo.changed and history.redo.changed, with its own type and
\* the name of the action it moved; execute(), clear(), an undo() or redo()
\* on an empty stack and a call that throws publish no
\* history.action.performed.
ActionPerformedOnce ==
  \A i \in 1..Len(trace) :
    (trace[i].mgr = "history" /\ trace[i].done) =>
      IF trace[i].op \in {"undo", "redo"} /\ trace[i].result = "value"
      THEN LET from == IF trace[i].op = "undo" THEN trace[i].before.undo
                       ELSE trace[i].before.redo
           IN  /\ from # <<>>
               /\ PublishedNames(i) = <<UndoStackChanged, RedoStackChanged, ActionPerformed>>
               /\ trace[i].published[3].payload =
                    [type |-> trace[i].op, actionName |-> from[Len(from)]]
               /\ trace[i].published[1].id < trace[i].published[2].id
               /\ trace[i].published[2].id < trace[i].published[3].id
      ELSE ActionPerformed \notin ToSet(PublishedNames(i))

\* C31 witness: execute(A), undo(), redo() and clear() have returned, the
\* undo() and the redo() having moved A.
ActionPerformedOnceWitness ==
  /\ Len(trace) = 4
  /\ calls = <<>>
  /\ trace[1].op = "execute" /\ trace[1].result = "value" /\ trace[1].arg = "A"
  /\ trace[2].op = "undo" /\ trace[2].result = "value"
  /\ trace[3].op = "redo" /\ trace[3].result = "value"
  /\ trace[3].published[3].payload = [type |-> "redo", actionName |-> "A"]
  /\ trace[4].op = "clear" /\ trace[4].done

\* C37: an undo() whose action.undo() throws, and a redo() whose
\* action.execute() throws, leave both stacks as they were before the call.
ThrowKeepsAction ==
  \A i \in 1..Len(trace) :
    (trace[i].op \in {"undo", "redo"} /\ trace[i].result = "threw") =>
      /\ trace[i].after.undo = trace[i].before.undo
      /\ trace[i].after.redo = trace[i].before.redo

\* C38: an execute(action) whose action.execute() throws leaves the undo
\* stack and the redo stack as they were and publishes no event (the bus
\* draws no event id).
ExecuteThrowNoEffect ==
  \A i \in 1..Len(trace) :
    (trace[i].op = "execute" /\ trace[i].result = "threw") =>
      /\ trace[i].after = trace[i].before
      /\ trace[i].published = <<>>
      /\ trace[i].done

\* C38 witness: an execute(C) has thrown, called with A on the undo stack
\* and B on the redo stack.
ExecuteThrowNoEffectWitness ==
  /\ trace # <<>>
  /\ LET t == trace[Len(trace)]
     IN  /\ t.op = "execute" /\ t.result = "threw" /\ t.arg = "C"
         /\ t.before.undo = <<"A">>
         /\ t.before.redo = <<"B">>
  /\ redoStack = <<"B">>

(***************************************************************************)
(* SelectionManager (/src/system/SelectionManager.js).  The Set            *)
(* selectedNodes is the sequence of its elements in insertion order.  A    *)
(* call is a frame of `calls`, as for HistoryManager; the frame of         *)
(* selectNode also runs the clearSelection() it calls.                     *)
(***************************************************************************)
NodeSelected == <<"graph", "node", "selected">>
NodeDeselected == <<"graph", "node", "deselected">>
SelectionChanged == <<"selection", "changed">>

\* (mutant) the Set never reports a member
HasNever(nodes, nodeId) == FALSE

\* Set.prototype.has
Has(nodes, nodeId) == \E j \in 1..Len(nodes) : nodes[j] = nodeId

\* Set.prototype.add
Add(nodes, nodeId) == IF Has(nodes, nodeId) THEN nodes ELSE Append(nodes, nodeId)

\* (mutant) delete empties the Set
DeleteAll(nodes, nodeId) == <<>>

\* Set.prototype.delete
Delete(nodes, nodeId) == SelectSeq(nodes, LAMBDA n : n # nodeId)

\* (mutant) clearSelection leaves the sets as they are
ClearedKept(nodes) == nodes

\* Set.prototype.clear
Cleared(nodes) == <<>>

\* (mutant) getSelection() reports only the node added last
getSelectionLast ==
  [nodes |-> IF selectedNodes = <<>> THEN <<>>
             ELSE <<selectedNodes[Len(selectedNodes)]>>,
   edges |-> selectedEdges, count |-> Len(selectedNodes) + Len(selectedEdges)]

\* getSelection()
getSelection ==
  [nodes |-> selectedNodes, edges |-> selectedEdges,
   count |-> Len(selectedNodes) + Len(selectedEdges)]

SelectionState ==
  [nodes |-> selectedNodes, edges |-> selectedEdges, history |-> selectionHistory,
   idCounter |-> idCounter]

\* (mutant) _addToHistory never shifts
smAddToHistoryUnbounded(history, action, maxSize) == Append(history, action)

\* SelectionManager._addToHistory
smAddToHistory(history, action, maxSize) ==
  LET pushed == Append(history, action)
  IN  IF Len(pushed) > maxSize THEN Tail(pushed) ELSE pushed

\* selectNode(nodeId, { multi }): the call is made
smSelectNode(nodeId, multi) ==
  /\ EnvironmentRuns
  /\ calls' = Append(calls, [Frame("selection", "selectNode",
                                    IF multi THEN "select" ELSE "deselectEach")
                               EXCEPT !.arg = nodeId, !.i = 1])
  /\ trace' = Append(trace, [Entered("selection", "selectNode", nodeId, SelectionState)
                               EXCEPT !.called = <<multi>>])
  /\ UNCHANGED <<busVars, undoStack, redoStack, hmMaxHistorySize, selectedNodes,
                 selectedEdges, selectionHistory, smMaxHistorySize, uiVars>>

\* deselectNode(nodeId): the call is made
smDeselectNode(nodeId) ==
  /\ EnvironmentRuns
  /\ calls' = Append(calls, [Frame("selection", "deselectNode", "deselect")
                               EXCEPT !.arg = nodeId])
  /\ trace' = Append(trace, Entered("selection", "deselectNode", nodeId, SelectionState))
  /\ UNCHANGED <<busVars, undoStack, redoStack, hmMaxHistorySize, selectedNodes,
                 selectedEdges, selectionHistory, smMaxHistorySize, uiVars>>

\* clearSelection(): the call is made
smClearSelection ==
  /\ EnvironmentRuns
  /\ calls' = Append(calls, [Frame("selection", "clearSelection", "deselectEach")
                               EXCEPT !.i = 1])
  /\ trace' = Append(trace, Entered("selection", "clearSelection", "none", SelectionState))
  /\ UNCHANGED <<busVars, undoStack, redoStack, hmMaxHistorySize, selectedNodes,
                 selectedEdges, selectionHistory, smMaxHistorySize, uiVars>>

\* clearSelection(): one iteration of this.selectedNodes.forEach, which
\* reads the live Set
smDeselectEach ==
  /\ ManagerRuns("selection", "deselectEach")
  /\ TopCall.i <= Len(selectedNodes)
  /\ publish(NodeDeselected)
  /\ calls' = [calls EXCEPT ![Len(calls)].i = @ + 1]
  /\ trace' = Published(NodeDeselected,
                 [nodeId |-> selectedNodes[TopCall.i], source |-> "clearAll"])
  /\ UNCHANGED <<undoStack, redoStack, hmMaxHistorySize, selectedNodes, selectedEdges,
                 selectionHistory, smMaxHistorySize, uiVars>>

\* clearSelection() after the forEach: both sets are cleared and
\* selection.changed is published
smClearAll ==
  /\ ManagerRuns("selection", "deselectEach")
  /\ TopCall.i > Len(selectedNodes)
  /\ selectedNodes' = Cleared(selectedNodes)
  /\ selectedEdges' = Cleared(selectedEdges)
  /\ publish(SelectionChanged)
  /\ calls' = SetPc(IF TopCall.op = "clearSelection" THEN "return" ELSE "select")
  /\ trace' = Published(SelectionChanged,
                 [selectedIds |-> <<>>,
                  previousSelection |-> trace[TopCall.entry].before.nodes])
  /\ UNCHANGED <<undoStack, redoStack, hmMaxHistorySize, selectionHistory,
                 smMaxHistorySize, uiVars>>

\* selectNode: if (!this.selectedNodes.has(nodeId)) { add; publish NODE_SELECTED }
smSelect ==
  /\ ManagerRuns("selection", "select")
  /\ IF Has(selectedNodes, TopCall.arg)
     THEN /\ calls' = SetPc("return")
          /\ UNCHANGED <<busVars, selectedNodes, trace>>
     ELSE /\ selectedNodes' = Add(selectedNodes, TopCall.arg)
          /\ publish(NodeSelected)
          /\ calls' = SetPc("selected")
          /\ trace' = Published(NodeSelected,
                         [nodeId |-> TopCall.arg,
                          multiSelect |-> trace[TopCall.entry].called[1]])
  /\ UNCHANGED <<undoStack, redoStack, hmMaxHistorySize, selectedEdges,
                 selectionHistory, smMaxHistorySize, uiVars>>

\* deselectNode: if (this.selectedNodes.has(nodeId)) { delete; publish NODE_DESELECTED }
smDeselect ==
  /\ ManagerRuns("selection", "deselect")
  /\ IF ~Has(selectedNodes, TopCall.arg)
     THEN /\ calls' = SetPc("return")
          /\ UNCHANGED <<busVars, selectedNodes, trace>>
     ELSE /\ selectedNodes' = Delete(selectedNodes, TopCall.arg)
          /\ publish(NodeDeselected)
          /\ calls' = SetPc("deselected")
          /\ trace' = Published(NodeDeselected,
                         [nodeId |-> TopCall.arg, source |-> "unknown"])
  /\ UNCHANGED <<undoStack, redoStack, hmMaxHistorySize, selectedEdges,
                 selectionHistory, smMaxHistorySize, uiVars>>

\* _propagateSelection: eventBus.publish(SelectionEvents.CHANGED, ...)
smPropagateSelection ==
  /\ calls # <<>>
  /\ ManagerRuns("selection", TopCall.pc)
  /\ TopCall.pc \in {"selected", "deselected"}
  /\ publish(SelectionChanged)
  /\ calls' = SetPc("record")
  /\ trace' = Published(SelectionChanged,
                 [selectedIds |-> getSelection.nodes,
                  changedItem |-> [id |-> TopCall.arg, type |-> "node",
                                   action |-> TopCall.pc]])
  /\ UNCHANGED <<undoStack, redoStack, hmMaxHistorySize, selectedNodes, selectedEdges,
                 selectionHistory, smMaxHistorySize, uiVars>>

\* _propagateSelection: this._addToHistory({ type: 'selection', ... }), and
\* the method returns
smRecord ==
  /\ ManagerRuns("selection", "record")
  /\ selectionHistory' =
       smAddToHistory(selectionHistory,
                      [type |-> "selection", itemType |-> "node", itemId |-> TopCall.arg,
                       action |-> IF TopCall.op = "selectNode" THEN "selected"
                                  ELSE "deselected"],
                      smMaxHistorySize)
  /\ calls' = SubSeq(calls, 1, Len(calls) - 1)
  /\ trace' = [trace EXCEPT ![TopCall.entry] =
                 Finished(@, "undefined", [SelectionState EXCEPT
                                             !.history = selectionHistory'])]
  /\ UNCHANGED <<busVars, undoStack, redoStack, hmMaxHistorySize, selectedNodes,
                 selectedEdges, smMaxHistorySize, uiVars>>

\* the method returns without a change to report
smReturn ==
  /\ ManagerRuns("selection", "return")
  /\ calls' = SubSeq(calls, 1, Len(calls) - 1)
  /\ trace' = [trace EXCEPT ![TopCall.entry] = Finished(@, "undefined", SelectionState)]
  /\ UNCHANGED <<busVars, undoStack, redoStack, hmMaxHistorySize, selectedNodes,
                 selectedEdges, selectionHistory, smMaxHistorySize, uiVars>>

(***************************************************************************)
(* GraphStore (src/unnamed/part_001), a collaborator that keeps its own    *)
(* Set of selected nodes and publishes the node events on the bus itself.  *)
(***************************************************************************)
\* GraphStore.selectNode(nodeId, { multi })
storeSelectNode(nodeId, multi) ==
  /\ EnvironmentRuns
  /\ storeSelectedNodes' = Add(IF multi THEN storeSelectedNodes ELSE <<>>, nodeId)
  /\ publish(NodeSelected)
  /\ calls' = Append(calls, [Frame("store", "storeSelectNode", "return")
                               EXCEPT !.arg = nodeId])
  /\ trace' = Append(trace,
                 [Entered("store", "storeSelectNode", nodeId, SelectionState)
                    EXCEPT !.called = <<multi>>,
                           !.published = <<[name |-> NodeSelected, id |-> idCounter + 1,
                                            payload |-> [nodeId |-> nodeId,
                                                         multiSelect |-> multi]]>>])
  /\ UNCHANGED <<undoStack, redoStack, hmMaxHistorySize, selectedNodes, selectedEdges,
                 selectionHistory, smMaxHistorySize, mounted, received>>

\* GraphStore.deselectNode(nodeId)
storeDeselectNode(nodeId) ==
  /\ EnvironmentRuns
  /\ storeSelectedNodes' = Delete(storeSelectedNodes, nodeId)
  /\ publish(NodeDeselected)
  /\ calls' = Append(calls, [Frame("store", "storeDeselectNode", "return")
                               EXCEPT !.arg = nodeId])
  /\ trace' = Append(trace,
                 [Entered("store", "storeDeselectNode", nodeId, SelectionState)
                    EXCEPT !.published = <<[name |-> NodeDeselected, id |-> idCounter + 1,
                                            payload |-> [nodeId |-> nodeId]]>>])
  /\ UNCHANGED <<undoStack, redoStack, hmMaxHistorySize, selectedNodes, selectedEdges,
                 selectionHistory, smMaxHistorySize, mounted, received>>

\* the GraphStore method returns once its publish has
storeReturn ==
  /\ ManagerRuns("store", "return")
  /\ calls' = SubSeq(calls, 1, Len(calls) - 1)
  /\ trace' = [trace EXCEPT ![TopCall.entry] = Finished(@, "undefined", SelectionState)]
  /\ UNCHANGED <<busVars, undoStack, redoStack, hmMaxHistorySize, selectedNodes,
                 selectedEdges, selectionHistory, smMaxHistorySize, uiVars>>

(***************************************************************************)
(* useEventBus(event, callback) (/src/hooks/useEventBus.js) in a component *)
(* c.  The effect with the dependency [event] subscribes and keeps the     *)
(* subscriptionId in its closure; React runs its cleanup, which            *)
(* unsubscribes that id, when c unmounts and, followed by the effect       *)
(* again, when c is rendered with another event.  `held` is an             *)
(* observation: every id an effect of c has been given.                    *)
(***************************************************************************)
\* (mutant) the effect forgets the id and its cleanup unsubscribes nothing
CleanupIdLost(c) == 0

\* the subscriptionId in the closure of the cleanup
CleanupId(c) == mounted[c].subscriptionId

\* no component is between the cleanup of its effect and the effect
NoEffectPending ==
  \A c \in Components : mounted[c].mounted => mounted[c].subscriptionId # 0

\* c mounts: the effect runs
hookMount(c, event) ==
  /\ NoEffectPending
  /\ ~mounted[c].mounted
  /\ subscribe(event, 0, FALSE, NoFilter)
  /\ mounted' = [mounted EXCEPT ![c] =
                   [mounted |-> TRUE, event |-> event, subscriptionId |-> idCounter + 1,
                    held |-> @.held \cup {idCounter + 1}]]
  /\ UNCHANGED <<storeSelectedNodes, received>>

\* c unmounts: the cleanup runs
hookUnmount(c) ==
  /\ NoEffectPending
  /\ mounted[c].mounted
  /\ unsubscribeId(CleanupId(c))
  /\ mounted' = [mounted EXCEPT ![c] = [@ EXCEPT !.mounted = FALSE, !.subscriptionId = 0]]
  /\ UNCHANGED <<storeSelectedNodes, received>>

\* c is rendered with another event: the cleanup of the effect runs
hookCleanup(c, event) ==
  /\ NoEffectPending
  /\ mounted[c].mounted
  /\ mounted[c].event # event
  /\ unsubscribeId(CleanupId(c))
  /\ mounted' = [mounted EXCEPT ![c] = [@ EXCEPT !.event = event, !.subscriptionId = 0]]
  /\ UNCHANGED <<storeSelectedNodes, received>>

\* ... and then the effect runs again, in the same commit
hookEffect(c) ==
  /\ mounted[c].mounted
  /\ mounted[c].subscriptionId = 0
  /\ subscribe(mounted[c].event, 0, FALSE, NoFilter)
  /\ mounted' = [mounted EXCEPT ![c] =
                   [@ EXCEPT !.subscriptionId = idCounter + 1,
                             !.held = @ \cup {idCounter + 1}]]
  /\ UNCHANGED <<storeSelectedNodes, received>>

(***************************************************************************)
(* The selection specification: the singleton SelectionManager on a fresh  *)
(* bus (its constructor has subscribed its two handlers), called from the  *)
(* top level up to MaxSmOps times on the nodes n1, n2 and n3.              *)
(***************************************************************************)
Nodes == {"n1", "n2", "n3"}

Handler(id) == [id |-> id, priority |-> 0, once |-> FALSE, filter |-> NoFilter]

InitSelectionManager ==
  /\ events = <<[pattern |-> NodeSelected, subs |-> <<Handler(1)>>],
                [pattern |-> NodeDeselected, subs |-> <<Handler(2)>>]>>
  /\ middleware = <<LoggerMiddleware>>
  /\ eventHistory = <<>>
  /\ maxHistorySize = 100
  /\ idCounter = 2
  /\ stack = <<>>
  /\ last = [op |-> "init"]
  /\ attempts = <<0, 0>>
  /\ threw = {}
  /\ matchCall = [op |-> "none"]
  /\ undoStack = <<>>
  /\ redoStack = <<>>
  /\ hmMaxHistorySize = 50
  /\ selectedNodes = <<>>
  /\ selectedEdges = <<>>
  /\ selectionHistory = <<>>
  /\ smMaxHistorySize = 20
  /\ calls = <<>>
  /\ trace = <<>>
  /\ NoComponents

SelectNodeSM ==
  \E n \in Nodes, multi \in BOOLEAN :
    TopLevel /\ Len(trace) < MaxSmOps /\ smSelectNode(n, multi)

DeselectNodeSM == \E n \in Nodes : TopLevel /\ Len(trace) < MaxSmOps /\ smDeselectNode(n)

ClearSelectionSM == TopLevel /\ Len(trace) < MaxSmOps /\ smClearSelection

NextSelectionManager ==
  \/ SelectNodeSM
  \/ DeselectNodeSM
  \/ ClearSelectionSM
  \/ smDeselectEach
  \/ smClearAll
  \/ smSelect
  \/ smDeselect
  \/ smPropagateSelection
  \/ smRecord
  \/ smReturn
  \/ visit
  \/ callbackReturn

SpecSelectionManager == InitSelectionManager /\ [][NextSelectionManager]_vars

\* the node events among those a call published, as <<name, nodeId>>
NodeEvents(i) ==
  LET evs == SelectSeq(trace[i].published,
                       LAMBDA e : e.name \in {NodeSelected, NodeDeselected})
  IN  [j \in 1..Len(evs) |-> <<evs[j].name, evs[j].payload.nodeId>>]

ExpectedNodeEvents(before, x) ==
  [j \in 1..(Len(before) + 1) |->
     IF j <= Len(before) THEN <<NodeDeselected, before[j]>> ELSE <<NodeSelected, x>>]

\* C20: a selectNode(x) with multi = false, from a selection S that does
\* not hold x, publishes one node-deselected event for each node of S and
\* then the node-selected event for x; when it has returned getSelection()
\* is { nodes: [x], edges: [], count: 1 }.
SingleSelectReplaces ==
  \A i \in 1..Len(trace) :
    (/\ trace[i].op = "selectNode" /\ trace[i].called = <<FALSE>>
     /\ trace[i].done /\ ~Has(trace[i].before.nodes, trace[i].arg)) =>
      /\ NodeEvents(i) = ExpectedNodeEvents(trace[i].before.nodes, trace[i].arg)
      /\ trace[i].after.nodes = <<trace[i].arg>>
      /\ trace[i].after.edges = <<>>
      /\ (i = Len(trace) /\ calls = <<>>) =>
           getSelection = [nodes |-> <<trace[i].arg>>, edges |-> <<>>, count |-> 1]

\* C20 witness: selectNode("n3") with multi = false has returned, called
\* while n1 and n2 were selected.
SingleSelectReplacesWitness ==
  /\ trace # <<>>
  /\ calls = <<>>
  /\ LET t == trace[Len(trace)]
     IN  /\ t.op = "selectNode" /\ t.called = <<FALSE>> /\ t.arg = "n3"
         /\ t.before.nodes = <<"n1", "n2">>
         /\ t.done

\* C21: a selectNode(n) with multi = true made while n is selected publishes
\* no event and leaves the selection, the selection trace and the bus
\* registry as they were.
MultiSelectOfSelectedNoOp ==
  \A i \in 1..Len(trace) :
    (/\ trace[i].op = "selectNode" /\ trace[i].called = <<TRUE>>
     /\ trace[i].done /\ trace[i].arg \in ToSet(trace[i].before.nodes)) =>
      /\ trace[i].published = <<>>
      /\ trace[i].after = trace[i].before
      /\ (i = Len(trace) /\ calls = <<>>) =>
           /\ selectedNodes = trace[i].before.nodes
           /\ selectionHistory = trace[i].before.history

\* C21 witness: selectNode("n1") with multi = true has returned, called
\* while n1 and n2 were selected.
MultiSelectOfSelectedNoOpWitness ==
  /\ trace # <<>>
  /\ calls = <<>>
  /\ LET t == trace[Len(trace)]
     IN  /\ t.op = "selectNode" /\ t.called = <<TRUE>> /\ t.arg = "n1"
         /\ t.before.nodes = <<"n1", "n2">>
         /\ t.done

\* C22: every selection.changed event the manager publishes carries as
\* selectedIds the whole list of the nodes selected at that moment, and the
\* one that reports a changed node comes directly after the node-selected
\* or node-deselected event of that node, published by the same call.
SelectionChangedComplete ==
  [][\A i \in 1..Len(trace) :
       Len(trace'[i].published) = Len(trace[i].published) + 1 =>
         LET evs == trace'[i].published
             e   == evs[Len(evs)]
         IN  e.name = SelectionChanged =>
               /\ e.payload.selectedIds = selectedNodes'
               /\ "changedItem" \in DOMAIN e.payload =>
                    /\ Len(evs) >= 2
                    /\ evs[Len(evs) - 1].name =
                         (IF e.payload.changedItem.action = "selected"
                          THEN NodeSelected ELSE NodeDeselected)
                    /\ evs[Len(evs) - 1].payload.nodeId = e.payload.changedItem.id
                    /\ evs[Len(evs) - 1].id < e.id
                    /\ (e.payload.changedItem.action = "selected") =
                         (e.payload.changedItem.id \in ToSet(selectedNodes'))]_vars

\* C22 witness: selectNode("n3") with multi = true, called while n1 and n2
\* were selected, has published selection.changed with all three nodes.
SelectionChangedCompleteWitness ==
  /\ trace # <<>>
  /\ LET t == trace[Len(trace)]
     IN  /\ t.op = "selectNode" /\ t.called = <<TRUE>> /\ t.arg = "n3"
         /\ t.before.nodes = <<"n1", "n2">>
         /\ Len(t.published) = 2
         /\ t.published[1].name = NodeSelected
         /\ t.published[2].name = SelectionChanged
         /\ t.published[2].payload.selectedIds = <<"n1", "n2", "n3">>

\* C23: a deselectNode(n) made while n is selected removes n, keeps every
\* other selected node in its place and publishes graph.node.deselected for
\* n once; made while n is not selected it publishes nothing and leaves the
\* selection and the selection trace as they were.
DeselectExactlyWhenSelected ==
  \A i \in 1..Len(trace) :
    (trace[i].op = "deselectNode" /\ trace[i].done) =>
      LET b == trace[i].before
          a == trace[i].after
          n == trace[i].arg
      IN  IF n \in ToSet(b.nodes)
          THEN /\ NodeEvents(i) = << <<NodeDeselected, n>> >>
               /\ n \notin ToSet(a.nodes)
               /\ Len(a.nodes) = Len(b.nodes) - 1
               /\ \A j, k \in 1..Len(b.nodes) :
                    (j < k /\ b.nodes[j] # n /\ b.nodes[k] # n) =>
                      \E ja, ka \in 1..Len(a.nodes) :
                        /\ ja < ka
                        /\ a.nodes[ja] = b.nodes[j]
                        /\ a.nodes[ka] = b.nodes[k]
               /\ ToSet(a.nodes) = ToSet(b.nodes) \ {n}
               /\ a.edges = b.edges
          ELSE /\ trace[i].published = <<>>
               /\ a = b

\* C23 witness: deselectNode("n2") has returned, called while n1 and n2
\* were selected, and so has a deselectNode of a node that was not selected.
DeselectExactlyWhenSelectedWitness ==
  /\ calls = <<>>
  /\ \E i \in 1..Len(trace) :
       /\ trace[i].op = "deselectNode" /\ trace[i].arg = "n2" /\ trace[i].done
       /\ trace[i].before.nodes = <<"n1", "n2">>
  /\ \E i \in 1..Len(trace) :
       /\ trace[i].op = "deselectNode" /\ trace[i].done
       /\ trace[i].arg \notin ToSet(trace[i].before.nodes)

\* the events clearSelection() is to publish from the node list `before`
ExpectedClearEvents(before) ==
  [j \in 1..(Len(before) + 1) |->
     IF j <= Len(before)
     THEN [name |-> NodeDeselected, nodeId |-> before[j]]
     ELSE [name |-> SelectionChanged, selectedIds |-> <<>>,
           previousSelection |-> before]]

\* the events a call published, reduced to the fields ExpectedClearEvents names
ClearEvents(i) ==
  [j \in 1..Len(trace[i].published) |->
     LET e == trace[i].published[j]
     IN  IF e.name = SelectionChanged /\ "previousSelection" \in DOMAIN e.payload
         THEN [name |-> e.name, selectedIds |-> e.payload.selectedIds,
               previousSelection |-> e.payload.previousSelection]
         ELSE IF e.name = NodeDeselected
         THEN [name |-> e.name, nodeId |-> e.payload.nodeId]
         ELSE [name |-> e.name]]

\* C24: a clearSelection() publishes graph.node.deselected for each node
\* that was selected when it was called, in the order of the Set, and then
\* one selection.changed with selectedIds = [] and previousSelection = the
\* nodes selected at the call (also when none was); when it has returned
\* the selection is empty.
ClearSelectionEvents ==
  \A i \in 1..Len(trace) :
    (trace[i].op = "clearSelection" /\ trace[i].done) =>
      /\ ClearEvents(i) = ExpectedClearEvents(trace[i].before.nodes)
      /\ \A j \in 1..(Len(trace[i].published) - 1) :
           trace[i].published[j].id < trace[i].published[j + 1].id
      /\ trace[i].after.nodes = <<>>
      /\ trace[i].after.edges = <<>>
      /\ (i = Len(trace) /\ calls = <<>>) =>
           getSelection = [nodes |-> <<>>, edges |-> <<>>, count |-> 0]

\* C24 witness: a clearSelection() called with n1 and n2 selected has
\* returned, and so has one called with nothing selected.
ClearSelectionEventsWitness ==
  /\ calls = <<>>
  /\ \E i \in 1..Len(trace) :
       /\ trace[i].op = "clearSelection" /\ trace[i].done
       /\ trace[i].before.nodes = <<"n1", "n2">>
  /\ \E i \in 1..Len(trace) :
       /\ trace[i].op = "clearSelection" /\ trace[i].done
       /\ trace[i].before.nodes = <<>>
       /\ Len(trace[i].published) = 1

\* the trace entries that record the node events a call published
EntriesOfNodeEvents(i) ==
  LET evs == NodeEvents(i)
  IN  [j \in 1..Len(evs) |->
         [type |-> "selection", itemType |-> "node", itemId |-> evs[j][2],
          action |-> IF evs[j][1] = NodeSelected THEN "selected" ELSE "deselected"]]

\* C25: a call that has returned has appended to the selection trace one
\* entry for each node it added or removed, in the order of the changes
\* (the trace stays below its capacity in these runs).
TraceEntryPerChange ==
  \A i \in 1..Len(trace) :
    (trace[i].mgr = "selection" /\ trace[i].done) =>
      trace[i].after.history = trace[i].before.history \o EntriesOfNodeEvents(i)

\* C35: while a graph.node.deselected event published by the manager is
\* being delivered to a subscriber, getSelection().nodes does not hold the
\* node of that event.
DeselectedNodeGone ==
  \A i \in 1..Len(trace) :
    trace[i].mgr = "selection" =>
      \A j \in 1..Len(trace[i].published) :
        LET e == trace[i].published[j]
        IN  (/\ e.name = NodeDeselected
             /\ \E k \in 1..Len(stack) : stack[k].event.id = e.id /\ stack[k].running) =>
              e.payload.nodeId \notin ToSet(getSelection.nodes)

\* C36: a selectNode(n) with multi = false made while n is selected
\* publishes no graph.node.deselected and no graph.node.selected for n, and
\* n is selected as long as the call runs.
SingleSelectOfSelectedQuiet ==
  \A i \in 1..Len(trace) :
    (/\ trace[i].op = "selectNode" /\ trace[i].called = <<FALSE>>
     /\ trace[i].arg \in ToSet(trace[i].before.nodes)) =>
      /\ \A j \in 1..Len(NodeEvents(i)) : NodeEvents(i)[j][2] # trace[i].arg
      /\ (~trace[i].done /\ i = Len(trace)) => trace[i].arg \in ToSet(selectedNodes)

(***************************************************************************)
(* The selection-trace specification: the SelectionManager with a trace    *)
(* capacity of 2 or the default 20, next to the HistoryManager, both       *)
(* called from the top level: up to MaxSmOps calls with the capacity 2, up *)
(* to MaxTraceOps calls with the capacity 20.  The calls alternate         *)
(* selectNode("n1", {multi: true}) and deselectNode("n1") until the trace  *)
(* is one entry short of its capacity, and are free from there.            *)
(***************************************************************************)
SmSizes == {2, 20}
TraceNodes == {"n1", "n2"}

InitSelectionTrace ==
  /\ events = <<[pattern |-> NodeSelected, subs |-> <<Handler(1)>>],
                [pattern |-> NodeDeselected, subs |-> <<Handler(2)>>]>>
  /\ middleware = <<LoggerMiddleware>>
  /\ eventHistory = <<>>
  /\ maxHistorySize = 100
  /\ idCounter = 2
  /\ stack = <<>>
  /\ last = [op |-> "init"]
  /\ attempts = <<0, 0>>
  /\ threw = {}
  /\ matchCall = [op |-> "none"]
  /\ undoStack = <<>>
  /\ redoStack = <<>>
  /\ hmMaxHistorySize = 50
  /\ selectedNodes = <<>>
  /\ selectedEdges = <<>>
  /\ selectionHistory = <<>>
  /\ smMaxHistorySize \in SmSizes
  /\ calls = <<>>
  /\ trace = <<>>
  /\ NoComponents

TraceRoom ==
  /\ TopLevel
  /\ Len(trace) < (IF smMaxHistorySize = 20 THEN MaxTraceOps ELSE MaxSmOps)

FreeChoice == Len(selectionHistory) + 1 >= smMaxHistorySize

SelectNodeTrace ==
  \E n \in TraceNodes, multi \in BOOLEAN :
    /\ TraceRoom
    /\ IF FreeChoice THEN TRUE ELSE n = "n1" /\ multi /\ selectedNodes = <<>>
    /\ smSelectNode(n, multi)

DeselectNodeTrace ==
  \E n \in TraceNodes :
    /\ TraceRoom
    /\ IF FreeChoice THEN TRUE ELSE n = "n1" /\ selectedNodes = <<"n1">>
    /\ smDeselectNode(n)

ClearSelectionTrace == TraceRoom /\ FreeChoice /\ smClearSelection

ExecuteTrace == TraceRoom /\ FreeChoice /\ hmExecute("A", FALSE)

UndoTrace == TraceRoom /\ FreeChoice /\ hmUndo(FALSE)

ClearTrace == TraceRoom /\ FreeChoice /\ hmClear

NextSelectionTrace ==
  \/ SelectNodeTrace
  \/ DeselectNodeTrace
  \/ ClearSelectionTrace
  \/ ExecuteTrace
  \/ UndoTrace
  \/ ClearTrace
  \/ smDeselectEach
  \/ smClearAll
  \/ smSelect
  \/ smDeselect
  \/ smPropagateSelection
  \/ smRecord
  \/ smReturn
  \/ notifyUndoStackChanged
  \/ notifyRedoStackChanged
  \/ publishActionPerformed
  \/ hmReturn
  \/ visit
  \/ callbackReturn

SpecSelectionTrace == InitSelectionTrace /\ [][NextSelectionTrace]_vars

\* the trace after an entry was added to one of at most maxSize entries
TraceAfter(history, entry, maxSize) ==
  IF Len(history) < maxSize THEN Append(history, entry)
  ELSE [j \in 1..Len(history) |->
          IF j < Len(history) THEN history[j + 1] ELSE entry]

\* the call has reported a changed node: it has published selection.changed
\* with a changedItem
ReportedChange(i) ==
  \E j \in 1..Len(trace[i].published) :
    /\ trace[i].published[j].name = SelectionChanged
    /\ "changedItem" \in DOMAIN trace[i].published[j].payload

\* C26: the selection trace never holds more than maxHistorySize entries;
\* a call that reports a changed node appends its entry, and at capacity
\* the oldest entry leaves and the others keep their order; no step changes
\* the selection trace together with the undo or the redo stack, and a
\* HistoryManager call leaves the selection trace as it was.
SelectionTraceBounded ==
  /\ [](Len(selectionHistory) <= smMaxHistorySize)
  /\ [](\A i \in 1..Len(trace) :
          trace[i].done =>
            IF trace[i].mgr = "selection"
            THEN /\ trace[i].after.history =
                      (IF ReportedChange(i)
                       THEN TraceAfter(trace[i].before.history,
                              [type |-> "selection", itemType |-> "node",
                               itemId |-> trace[i].arg,
                               action |-> IF trace[i].op = "selectNode"
                                          THEN "selected" ELSE "deselected"],
                              smMaxHistorySize)
                       ELSE trace[i].before.history)
            ELSE TRUE)
  /\ [][/\ selectionHistory' # selectionHistory =>
             /\ undoStack' = undoStack
             /\ redoStack' = redoStack
             /\ calls # <<>> /\ TopCall.mgr = "selection"
        /\ (calls # <<>> /\ TopCall.mgr = "history") =>
             selectionHistory' = selectionHistory]_vars

\* C26 witness: with the capacity 20 a call has returned that found 20
\* entries in the trace and left 20, the oldest gone, and the undo stack
\* holds an action.
SelectionTraceBoundedWitness ==
  /\ smMaxHistorySize = 20
  /\ undoStack # <<>>
  /\ \E i \in 1..Len(trace) :
       /\ trace[i].mgr = "selection" /\ trace[i].done
       /\ Len(trace[i].before.history) = 20
       /\ Len(trace[i].after.history) = 20
       /\ trace[i].after.history[1] = trace[i].before.history[2]
       /\ trace[i].after.history # trace[i].before.history

(***************************************************************************)
(* The collaborator specification: the SelectionManager and the GraphStore *)
(* on one bus, both called from the top level on n1 and n2, up to          *)
(* MaxStoreOps calls in all.                                               *)
(***************************************************************************)
StoreSelectNode ==
  \E n \in TraceNodes, multi \in BOOLEAN :
    TopLevel /\ Len(trace) < MaxStoreOps /\ storeSelectNode(n, multi)

StoreDeselectNode ==
  \E n \in TraceNodes : TopLevel /\ Len(trace) < MaxStoreOps /\ storeDeselectNode(n)

SelectNodeStore ==
  \E n \in TraceNodes, multi \in BOOLEAN :
    TopLevel /\ Len(trace) < MaxStoreOps /\ smSelectNode(n, multi)

DeselectNodeStore ==
  \E n \in TraceNodes : TopLevel /\ Len(trace) < MaxStoreOps /\ smDeselectNode(n)

ClearSelectionStore == TopLevel /\ Len(trace) < MaxStoreOps /\ smClearSelection

NextGraphStore ==
  \/ StoreSelectNode
  \/ StoreDeselectNode
  \/ storeReturn
  \/ SelectNodeStore
  \/ DeselectNodeStore
  \/ ClearSelectionStore
  \/ smDeselectEach
  \/ smClearAll
  \/ smSelect
  \/ smDeselect
  \/ smPropagateSelection
  \/ smRecord
  \/ smReturn
  \/ visit
  \/ callbackReturn

SpecGraphStore == InitSelectionManager /\ [][NextGraphStore]_vars

RECURSIVE NodeEventsUpTo(_)
\* the node events published by the first i calls, in order
NodeEventsUpTo(i) == IF i = 0 THEN <<>> ELSE NodeEventsUpTo(i - 1) \o NodeEvents(i)

RECURSIVE SelectionAfter(_, _)
\* the nodes selected according to the first k of the node events evs
SelectionAfter(evs, k) ==
  IF k = 0 THEN {}
  ELSE IF evs[k][1] = NodeSelected THEN SelectionAfter(evs, k - 1) \cup {evs[k][2]}
  ELSE SelectionAfter(evs, k - 1) \ {evs[k][2]}

\* C27: when every call has returned, getSelection() holds the nodes that
\* are selected according to the node events published on the bus, and
\* each node event the GraphStore published was followed by a further
\* event (the selection.changed of the manager) before its call returned.
ManagerFollowsBus ==
  TopLevel =>
    /\ ToSet(getSelection.nodes) =
         SelectionAfter(NodeEventsUpTo(Len(trace)), Len(NodeEventsUpTo(Len(trace))))
    /\ \A i \in 1..Len(trace) :
         trace[i].mgr = "store" =>
           trace[i].after.idCounter > trace[i].before.idCounter + 1

(***************************************************************************)
(* The binding specification: the components c1 and c2 use                 *)
(* useEventBus on a.b or a.*; they mount, unmount and change their         *)
(* event, and events are published, from the top level and from inside     *)
(* running callbacks, until MaxHookId ids are drawn.                       *)
(***************************************************************************)
HookEvents == {AB, AStar}

MountHook ==
  \E c \in Components, e \in HookEvents : idCounter < MaxHookId /\ hookMount(c, e)

UnmountHook == \E c \in Components : hookUnmount(c)

CleanupHook ==
  \E c \in Components, e \in HookEvents : idCounter < MaxHookId /\ hookCleanup(c, e)

EffectHook == \E c \in Components : hookEffect(c)

PublishHook ==
  \E n \in Names :
    /\ idCounter < MaxHookId
    /\ Len(stack) < MaxDepth
    /\ NoEffectPending
    /\ publish(n)
    /\ UNCHANGED <<mgrVars, uiVars>>

NextHooks ==
  \/ MountHook
  \/ UnmountHook
  \/ CleanupHook
  \/ EffectHook
  \/ PublishHook
  \/ visit
  \/ callbackReturn
  \/ callbackThrow

SpecHooks == Init /\ [][NextHooks]_vars

\* the registered subscriptions an effect of c was given
SubscriptionsOf(c) == RegisteredIds(events) \cap mounted[c].held

\* C28: outside a commit, a mounted component has exactly one registered
\* subscription, the one whose id its effect holds, on the event it was
\* rendered with, and an unmounted component has none; a publish called
\* when a component is unmounted, or has given up an id, resolves no
\* subscription of that component other than the one it holds.
HookBinding ==
  /\ [](\A c \in Components :
          /\ (mounted[c].mounted /\ mounted[c].subscriptionId # 0) =>
               /\ SubscriptionsOf(c) = {mounted[c].subscriptionId}
               /\ \E k \in 1..Len(events) :
                    /\ events[k].pattern = mounted[c].event
                    /\ mounted[c].subscriptionId \in ToSet(IdsOf(events[k].subs))
          /\ ~mounted[c].mounted => SubscriptionsOf(c) = {})
  /\ [][Len(stack') > Len(stack) =>
          \A c \in Components :
            ToSet(IdsOf(stack'[Len(stack')].subscriptions)) \cap mounted[c].held
              \subseteq (IF mounted[c].mounted THEN {mounted[c].subscriptionId} ELSE {})]_vars

\* C28 witness: c1 has mounted, been called, unmounted and mounted again,
\* and a publish after that has returned that invoked the callback of its
\* second subscription and not that of its first; c2 is unmounted after
\* having been mounted.
HookBindingWitness ==
  /\ stack = <<>>
  /\ mounted["c1"].mounted
  /\ Cardinality(mounted["c1"].held) = 2
  /\ ~mounted["c2"].mounted
  /\ mounted["c2"].held # {}
  /\ Returned
  /\ last.visited = <<mounted["c1"].subscriptionId>>
  /\ \A id \in mounted["c1"].held : attempts[id] = 1

(***************************************************************************)
(* Subscribers of the stack events.  publish hands every callback the      *)
(* eventData it built: id, name and, under `payload`, the object the       *)
(* publisher passed.  `received` keeps, per observed subscription, the     *)
(* eventData of the invocations of its callback, in the order in which     *)
(* they began.                                                             *)
(***************************************************************************)

AllPublished ==
  UNION {{trace[i].published[j] : j \in 1..Len(trace[i].published)} : i \in 1..Len(trace)}

\* the payload argument of the publish call that built event
Payload(event) == (CHOOSE p \in AllPublished : p.id = event.id).payload

\* const eventData = { id, name, payload, metadata }
eventData(event) ==
  [id |-> event.id, name |-> event.name, payload |-> Payload(event)]

\* the running callback has been handed its eventData
Received ==
  IF stack = <<>> THEN TRUE
  ELSE IF ~Top.running THEN TRUE
  ELSE IF Top.current.id \in DOMAIN received
       THEN \E k \in 1..Len(received[Top.current.id]) :
              received[Top.current.id][k].id = Top.event.id
       ELSE TRUE

\* callback.call(context, eventData, this), seen from the callback
callbackReceives ==
  /\ stack # <<>>
  /\ Top.running
  /\ EnvironmentRuns
  /\ ~Received
  /\ received' = [received EXCEPT ![Top.current.id] = Append(@, eventData(Top.event))]
  /\ UNCHANGED <<busVars, mgrVars, storeSelectedNodes, mounted>>

(***************************************************************************)
(* The listeners specification: the singleton HistoryManager on a fresh    *)
(* bus with two subscribers of history.undo.changed and one of             *)
(* history.redo.changed.  execute, undo, redo and clear are called up to   *)
(* MaxListenerOps times, from the top level or from a callback that has    *)
(* been handed its event; no action method throws.                         *)
(***************************************************************************)
ListenerActions == {"A", "B"}

InitHistoryListeners ==
  /\ NoManagers
  /\ storeSelectedNodes = <<>>
  /\ mounted = [c \in Components |-> Unmounted]
  /\ received = <<<<>>, <<>>, <<>>>>
  /\ events = <<>>
  /\ middleware = <<LoggerMiddleware>>
  /\ eventHistory = <<>>
  /\ maxHistorySize = 100
  /\ idCounter = 0
  /\ stack = <<>>
  /\ last = [op |-> "init"]
  /\ attempts = <<>>
  /\ threw = {}
  /\ matchCall = [op |-> "none"]

Listening == idCounter >= Len(received)

SubscribeListener ==
  /\ ~Listening
  /\ subscribe(IF idCounter < 2 THEN UndoStackChanged ELSE RedoStackChanged,
               0, FALSE, NoFilter)
  /\ UNCHANGED uiVars

ListenerCalls == Listening /\ Len(trace) < MaxListenerOps /\ Received

ExecuteListener == \E a \in ListenerActions : ListenerCalls /\ hmExecute(a, FALSE)

UndoListener == ListenerCalls /\ hmUndo(FALSE)

RedoListener == ListenerCalls /\ hmRedo(FALSE)

ClearListener == ListenerCalls /\ hmClear

ReturnListener == EnvironmentRuns /\ Received /\ callbackReturn

NextHistoryListeners ==
  \/ SubscribeListener
  \/ ExecuteListener
  \/ UndoListener
  \/ RedoListener
  \/ ClearListener
  \/ notifyUndoStackChanged
  \/ notifyRedoStackChanged
  \/ publishActionPerformed
  \/ hmReturn
  \/ visit
  \/ callbackReceives
  \/ ReturnListener

SpecHistoryListeners == InitHistoryListeners /\ [][NextHistoryListeners]_vars

\* the eventData of the last invocation of the callback of subscription id
LastReceived(id) == received[id][Len(received[id])]

\* the stack a stack event reports on
StackOf(name) == IF name = UndoStackChanged THEN undoStack ELSE redoStack

\* C39: once the outermost HistoryManager operation has returned, the last
\* history.undo.changed / history.redo.changed payload every subscriber has
\* received gives the size and emptiness the stack has, also when a
\* subscriber has called execute, undo, redo or clear during the delivery.
SubscribersSeeActualStacks ==
  TopLevel =>
    \A id \in DOMAIN received :
      received[id] # <<>> =>
        LastReceived(id).payload = StackChanged(StackOf(LastReceived(id).name))

(***************************************************************************)
(* The useHistory specification: a component that uses useHistory mounts   *)
(* on a fresh bus (its two useEventBus effects subscribe, c1 for           *)
(* history.undo.changed and c2 for history.redo.changed), and then the     *)
(* singleton HistoryManager is called from the top level up to MaxHmOps    *)
(* times; no action method throws.  A JavaScript value is a record of its  *)
(* type and, unless it is undefined, its value.                            *)
(***************************************************************************)
Undefined == [type |-> "undefined"]

Boolean(b) == [type |-> "boolean", value |-> b]

\* object[field] of a JavaScript object whose own properties are boolean
Get(object, field) ==
  IF field \in DOMAIN object THEN Boolean(object[field]) ELSE Undefined

\* the state a useState(false) holds after the setter calls of the callback
\* of c: setCanUndo(event.canUndo) / setCanRedo(event.canRedo)
useState(c) ==
  LET id == mounted[c].subscriptionId
  IN  IF id \in DOMAIN received
      THEN IF received[id] = <<>> THEN Boolean(FALSE)
           ELSE Get(LastReceived(id), "can")
      ELSE Boolean(FALSE)

\* return { canUndo, canRedo, undo, redo }
useHistory == [canUndo |-> useState("c1"), canRedo |-> useState("c2")]

InitUseHistory ==
  /\ NoManagers
  /\ storeSelectedNodes = <<>>
  /\ mounted = [c \in Components |-> Unmounted]
  /\ received = <<<<>>, <<>>>>
  /\ events = <<>>
  /\ middleware = <<LoggerMiddleware>>
  /\ eventHistory = <<>>
  /\ maxHistorySize = 100
  /\ idCounter = 0
  /\ stack = <<>>
  /\ last = [op |-> "init"]
  /\ attempts = <<>>
  /\ threw = {}
  /\ matchCall = [op |-> "none"]

UseHistoryMounted == \A c \in Components : mounted[c].mounted

MountUseHistory ==
  IF mounted["c1"].mounted
  THEN hookMount("c2", RedoStackChanged)
  ELSE hookMount("c1", UndoStackChanged)

UseHistoryCalls == UseHistoryMounted /\ TopLevel /\ Len(trace) < MaxHmOps

ExecuteUseHistory == \E a \in Actions : UseHistoryCalls /\ hmExecute(a, FALSE)

UndoUseHistory == UseHistoryCalls /\ hmUndo(FALSE)

RedoUseHistory == UseHistoryCalls /\ hmRedo(FALSE)

ClearUseHistory == UseHistoryCalls /\ hmClear

NextUseHistory ==
  \/ MountUseHistory
  \/ ExecuteUseHistory
  \/ UndoUseHistory
  \/ RedoUseHistory
  \/ ClearUseHistory
  \/ notifyUndoStackChanged
  \/ notifyRedoStackChanged
  \/ publishActionPerformed
  \/ hmReturn
  \/ visit
  \/ callbackReceives
  \/ ReturnListener

SpecUseHistory == InitUseHistory /\ [][NextUseHistory]_vars

\* C40: after every mutating HistoryManager operation, the canUndo and
\* canRedo a mounted useHistory hook holds equal historyManager.canUndo()
\* and historyManager.canRedo().
UseHistoryFollowsManager ==
  (UseHistoryMounted /\ TopLevel /\ trace # <<>>) =>
    /\ useHistory.canUndo = Boolean(Len(undoStack) > 0)
    /\ useHistory.canRedo = Boolean(Len(redoStack) > 0)

(***************************************************************************)
(* The matching specification: _matchWildcard called directly on every     *)
(* event name of up to MaxEventLen segments and every pattern of up to     *)
(* MaxPatternLen segments.                                                 *)
(***************************************************************************)
NextMatch == matchWildcardCall

SpecMatch == InitMatch /\ [][NextMatch]_vars

RECURSIVE SegmentRule(_, _, _)
\* the rule of the specification: '**' matches the whole remainder, '*'
\* needs an event segment at its position, a literal must be equal, and a
\* pattern exhausted without '**' needs the same number of segments
SegmentRule(eventParts, patternParts, i) ==
  IF i > Len(patternParts) THEN Len(patternParts) = Len(eventParts)
  ELSE IF patternParts[i] = "**" THEN TRUE
  ELSE IF i > Len(eventParts) THEN FALSE
  ELSE IF patternParts[i] = "*" THEN SegmentRule(eventParts, patternParts, i + 1)
  ELSE patternParts[i] = eventParts[i] /\ SegmentRule(eventParts, patternParts, i + 1)

\* C10: _matchWildcard(event, pattern) equals the segment rule, for every
\* event name and every pattern.
MatchEqualsSegmentRule ==
  matchCall.op = "match" =>
    matchCall.result = SegmentRule(matchCall.event, matchCall.pattern, 1)

====
